---- MODULE Spec2Model ----
(***************************************************************************)
(* Design-mode overlay (public/design-mode.js) and component tagger        *)
(* (0x-tagger/src/index.ts).                                               *)
(*                                                                         *)
(* The overlay is a state machine over a live document: the document is a  *)
(* tree of elements whose child lists hold element and text nodes; strings *)
(* of text are sequences of words, the word " " standing for white space.  *)
(* The tagger is a function from source text to source text; source text   *)
(* is a sequence of lexical tokens (see the second half of the module).    *)
(***************************************************************************)
EXTENDS Integers, Sequences, FiniteSets, TLC

(***************************************************************************)
(* Bounds of the model.                                                    *)
(***************************************************************************)
MaxOutbox == 1      \* messages posted to the host and not yet delivered
MaxPending == 1
MaxEdits == 2     \* callbacks waiting for the next animation frame

(***************************************************************************)
(* Configuration constants of the overlay.                                 *)
(***************************************************************************)
HIGHLIGHT_CLASS == "oxdm-highlight"
SELECTED_CLASS == "oxdm-selected"
HOVER_CLASS == "oxdm-hover"
ACTIVE_CLASS == "oxdm-active"
BRANDING_CLASS == "made-by-0xminds"
AutoTagSeed == 10000
maxAttempts == 10

(***************************************************************************)
(* The document the overlay runs in.  Element 1 is document.body; 0 is     *)
(* null.  A child list holds items: text nodes (k = "text", t the text)    *)
(* and element nodes (k = "elem", e the element).                          *)
(***************************************************************************)
Null == 0
Body == 1
Elements == 1..13
Absent == "<absent>"        \* getAttribute / inline style: nothing there

TextItem(t) == [k |-> "text", t |-> t, e |-> Null]
ElemItem(e) == [k |-> "elem", t |-> <<>>, e |-> e]

TagName ==
  << "body", "div", "ul", "li", "li", "p", "b", "h1", "a",
     "span", "input", "section", "button" >>
DomId == [e \in Elements |-> IF e = 2 THEN "root" ELSE ""]

\* <body><div id="root">
\*   <ul><li>Hello</li><li>Hello</li></ul>        (one call site, rendered twice)
\*   <p><b>bold</b> tail</p>
\*   <h1>Hello</h1>                                (rendered without a build-time tag)
\*   <a class="made-by-0xminds">Made</a>
\* </div></body>
\* Elements 10 to 13 (span, input, section, button) are not in this document;
\* the page holds <section><span>Hi</span></section> ready to be inserted.
InitChildren ==
  << <<ElemItem(2)>>,
     <<ElemItem(3), ElemItem(6), ElemItem(8), ElemItem(9)>>,
     <<ElemItem(4), ElemItem(5)>>,
     <<TextItem(<<"Hello">>)>>,
     <<TextItem(<<"Hello">>)>>,
     <<ElemItem(7), TextItem(<<" ", "tail">>)>>,
     <<TextItem(<<"bold">>)>>,
     <<TextItem(<<"Hello">>)>>,
     <<TextItem(<<"Made">>)>>,
     <<TextItem(<<"Hi">>)>>, <<>>, <<ElemItem(10)>>, <<>> >>

InitComponentId ==
  << Absent, Absent, "ul_List_3_4", "li_List_5_8", "li_List_5_8",
     "p_Page_7_4", Absent, Absent, "a_Badge_2_2",
     Absent, Absent, Absent, Absent >>

InitClassList ==
  [e \in Elements |-> IF e = 9 THEN {BRANDING_CLASS} ELSE {}]

CssProps == {"color", "margin-top", "float"}
NoInline == [p \in CssProps |-> Absent]
InitStyle ==
  [e \in Elements |->
     IF e = 4 THEN [p \in CssProps |->
                      CASE p = "color" -> "red"
                        [] p = "margin-top" -> "8px"
                        [] OTHER -> "left"]
     ELSE NoInline]

(***************************************************************************)
(* Strings of text.                                                        *)
(***************************************************************************)
RECURSIVE TrimLeft(_)
TrimLeft(t) == IF t # <<>> /\ Head(t) = " " THEN TrimLeft(Tail(t)) ELSE t

RECURSIVE TrimRight(_)
TrimRight(t) ==
  IF t # <<>> /\ t[Len(t)] = " " THEN TrimRight(SubSeq(t, 1, Len(t) - 1)) ELSE t

Trim(t) == TrimRight(TrimLeft(t))

(***************************************************************************)
(* Tree walking.  ch is a child-list function (the variable children or a  *)
(* value it may take).                                                     *)
(***************************************************************************)
\* element.children
ChildElements(ch, e) ==
  LET items == SelectSeq(ch[e], LAMBDA it : it.k = "elem")
  IN  [i \in 1..Len(items) |-> items[i].e]

\* the elements below `parent`, from its i-th child on, in document order
RECURSIVE ElementsFrom(_, _, _)
ElementsFrom(ch, parent, i) ==
  IF i > Len(ch[parent]) THEN <<>>
  ELSE (IF ch[parent][i].k = "elem"
        THEN <<ch[parent][i].e>> \o ElementsFrom(ch, ch[parent][i].e, 1)
        ELSE <<>>)
       \o ElementsFrom(ch, parent, i + 1)

\* element.querySelectorAll('*')
Descendants(ch, e) == ElementsFrom(ch, e, 1)

\* the elements of the document, in document order
DocOrder(ch) == <<Body>> \o Descendants(ch, Body)

InDocument(ch, e) == \E i \in 1..Len(DocOrder(ch)) : DocOrder(ch)[i] = e

\* the text nodes below `parent`, from its i-th child on, in document order;
\* a text node is named by its parent and its place in the parent's child list
RECURSIVE TextNodesFrom(_, _, _)
TextNodesFrom(ch, parent, i) ==
  IF i > Len(ch[parent]) THEN <<>>
  ELSE (IF ch[parent][i].k = "text"
        THEN <<[p |-> parent, i |-> i]>>
        ELSE TextNodesFrom(ch, ch[parent][i].e, 1))
       \o TextNodesFrom(ch, parent, i + 1)

RECURSIVE Concat(_, _, _)
Concat(ch, nodes, i) ==
  IF i > Len(nodes) THEN <<>>
  ELSE ch[nodes[i].p][nodes[i].i].t \o Concat(ch, nodes, i + 1)

\* element.textContent
TextContent(ch, e) == Concat(ch, TextNodesFrom(ch, e, 1), 1)

\* element.parentElement
ParentElement(ch, e) ==
  IF \E p \in Elements : \E i \in 1..Len(ch[p]) : ch[p][i] = ElemItem(e)
  THEN CHOOSE p \in Elements : \E i \in 1..Len(ch[p]) : ch[p][i] = ElemItem(e)
  ELSE Null

\* element.closest('.made-by-0xminds') is not null
RECURSIVE ClosestBranding(_, _, _)
ClosestBranding(ch, cl, e) ==
  IF e = Null THEN FALSE
  ELSE IF BRANDING_CLASS \in cl[e] THEN TRUE
  ELSE ClosestBranding(ch, cl, ParentElement(ch, e))

(***************************************************************************)
(* State.                                                                  *)
(***************************************************************************)
VARIABLES
  isDesignModeActive,   \* let isDesignModeActive
  selectedElement,      \* let selectedElement (Null or an element)
  hoveredElement,       \* let hoveredElement
  hoverTimeout,         \* let hoverTimeout: TRUE while the throttle timer runs
  mutationObserver,     \* let mutationObserver: TRUE while observing
  autoTagCounter,       \* let autoTagCounter
  listeners,            \* the capture-phase document listeners are attached
  styleInjected,        \* the <style id="0x-design-mode-styles"> element exists
  children,             \* the document tree: element -> child list
  componentId,          \* element -> its data-0x-component-id attribute
  autoTagged,           \* element -> it has the data-0x-auto-tagged attribute
  classList,            \* element -> set of classes
  style,                \* element -> inline style: CSS property -> value
  rafQueue,             \* callbacks passed to requestAnimationFrame, in order
  outbox,               \* messages posted to window.parent, not yet delivered
  hostSeen,             \* the last transition ack the host has received
  redundant,            \* "enable" / "disable": the mode command just handled
                        \* asked for the mode the overlay was in; else "none"
  files,                \* tagger: the project's source files
  userOptions,          \* tagger: the options given to componentTagger
  config,               \* tagger: Vite's resolved config, once it is known
  options,              \* tagger: the plugin's options
  outputs,              \* tagger: what transform returned for each file
  reruns,               \* tagger: what transform returned for its own output
  installed,            \* what the script has installed: its listeners, its
                        \* console.error, its debugging API
  location              \* the URL of the preview document

overlayVars ==
  << isDesignModeActive, selectedElement, hoveredElement, hoverTimeout,
     mutationObserver, autoTagCounter, listeners, styleInjected >>
docVars == << children, componentId, autoTagged, classList, style >>
chanVars == << rafQueue, outbox, hostSeen, redundant >>
taggerVars == << files, userOptions, config, options, outputs, reruns >>
scriptVars == << installed, location >>
vars == << overlayVars, docVars, chanVars, taggerVars, scriptVars >>

(***************************************************************************)
(* Auto-tagging.                                                           *)
(***************************************************************************)
\* isTaggedComponent(element)
IsTaggedComponent(cid, e) == e # Null /\ cid[e] # Absent

\* `auto-${autoTagCounter}`
AutoId(n) == "auto-" \o ToString(n)

\* shouldAutoTag(element) without its two tests of the identity attributes
ShouldAutoTagUntested(ch, cid, at, e) ==
  LET tagName == TagName[e]
      textContent == Trim(TextContent(ch, e))
      childrenCount == Len(ChildElements(ch, e))
      hasDirectText ==
        \E i \in 1..Len(ch[e]) :
          ch[e][i].k = "text" /\ Len(Trim(ch[e][i].t)) > 0
      smallContainer == childrenCount >= 1 /\ childrenCount <= 5
  IN  IF textContent = <<>> /\ childrenCount = 0 THEN FALSE
      ELSE IF tagName \in {"h1", "h2", "h3", "h4", "h5", "h6", "p"}
              /\ Len(textContent) > 0 THEN TRUE
      ELSE IF tagName \in {"button", "a", "input", "textarea", "select"}
           THEN TRUE
      ELSE IF tagName \in {"span", "label", "li"}
              /\ Len(textContent) > 0 /\ childrenCount < 3 THEN TRUE
      ELSE IF tagName \in {"div", "section", "article"}
           THEN hasDirectText \/ smallContainer
      ELSE FALSE

\* shouldAutoTag(element) with a small container of at most three children
ShouldAutoTagSmall(ch, cid, at, e) ==
  IF cid[e] # Absent THEN FALSE
  ELSE IF at[e] THEN FALSE
  ELSE
    LET tagName == TagName[e]
        textContent == Trim(TextContent(ch, e))
        childrenCount == Len(ChildElements(ch, e))
        hasDirectText ==
          \E i \in 1..Len(ch[e]) :
            ch[e][i].k = "text" /\ Len(Trim(ch[e][i].t)) > 0
        smallContainer == childrenCount >= 1 /\ childrenCount <= 3
    IN  IF textContent = <<>> /\ childrenCount = 0 THEN FALSE
        ELSE IF tagName \in {"h1", "h2", "h3", "h4", "h5", "h6", "p"}
                /\ Len(textContent) > 0 THEN TRUE
        ELSE IF tagName \in {"button", "a", "input", "textarea", "select"}
             THEN TRUE
        ELSE IF tagName \in {"span", "label", "li"}
                /\ Len(textContent) > 0 /\ childrenCount < 3 THEN TRUE
        ELSE IF tagName \in {"div", "section", "article"}
             THEN hasDirectText \/ smallContainer
        ELSE FALSE

\* shouldAutoTag(element)
ShouldAutoTag(ch, cid, at, e) ==
  IF cid[e] # Absent THEN FALSE
  ELSE IF at[e] THEN FALSE
  ELSE
    LET tagName == TagName[e]
        textContent == Trim(TextContent(ch, e))
        childrenCount == Len(ChildElements(ch, e))
        hasDirectText ==
          \E i \in 1..Len(ch[e]) :
            ch[e][i].k = "text" /\ Len(Trim(ch[e][i].t)) > 0
        smallContainer == childrenCount >= 1 /\ childrenCount <= 5
    IN  IF textContent = <<>> /\ childrenCount = 0 THEN FALSE
        ELSE IF tagName \in {"h1", "h2", "h3", "h4", "h5", "h6", "p"}
                /\ Len(textContent) > 0 THEN TRUE
        ELSE IF tagName \in {"button", "a", "input", "textarea", "select"}
             THEN TRUE
        ELSE IF tagName \in {"span", "label", "li"}
                /\ Len(textContent) > 0 /\ childrenCount < 3 THEN TRUE
        ELSE IF tagName \in {"div", "section", "article"}
             THEN hasDirectText \/ smallContainer
        ELSE FALSE

\* autoTagElement without the increment of the counter
AutoTagElementFixed(a, e) ==
  [cid |-> [a.cid EXCEPT ![e] = AutoId(a.n)],
   at |-> [a.at EXCEPT ![e] = TRUE],
   n |-> a.n]

\* autoTagElement(element), on the attributes a = [cid, at, n]
AutoTagElement(a, e) ==
  [cid |-> [a.cid EXCEPT ![e] = AutoId(a.n)],
   at |-> [a.at EXCEPT ![e] = TRUE],
   n |-> a.n + 1]

\* the loop of scanAndAutoTag over the elements es, from the i-th on
RECURSIVE ScanFrom(_, _, _, _)
ScanFrom(ch, a, es, i) ==
  IF i > Len(es) THEN a
  ELSE ScanFrom(ch,
                IF ShouldAutoTag(ch, a.cid, a.at, es[i])
                THEN AutoTagElement(a, es[i]) ELSE a,
                es, i + 1)

\* scanAndAutoTag without the loop over the descendants
ScanAndAutoTagSelf(ch, a, e) == ScanFrom(ch, a, <<e>>, 1)

\* scanAndAutoTag(element): the element itself, then all its descendants
ScanAndAutoTag(ch, a, e) == ScanFrom(ch, a, <<e>> \o Descendants(ch, e), 1)

(***************************************************************************)
(* Resolution of an event target.                                          *)
(***************************************************************************)
\* isEditableElement(element)
IsEditableElement(ch, cid, cl, e) ==
  IF e = Null THEN FALSE
  ELSE IF TagName[e] \in {"html", "body"} THEN FALSE
  ELSE IF DomId[e] = "root" THEN FALSE
  ELSE IF BRANDING_CLASS \in cl[e] THEN FALSE
  ELSE IF ClosestBranding(ch, cl, e) THEN FALSE
  ELSE cid[e] # Absent

\* the loop of findClosestTaggedElement without its count of attempts
RECURSIVE FindFromUncounted(_, _, _, _, _)
FindFromUncounted(ch, cid, cl, current, attempts) ==
  IF current # Null /\ current # Body
  THEN IF IsTaggedComponent(cid, current) /\ IsEditableElement(ch, cid, cl, current)
       THEN current
       ELSE FindFromUncounted(ch, cid, cl, ParentElement(ch, current), attempts + 1)
  ELSE Null

\* the loop of findClosestTaggedElement
RECURSIVE FindFrom(_, _, _, _, _)
FindFrom(ch, cid, cl, current, attempts) ==
  IF current # Null /\ current # Body /\ attempts < maxAttempts
  THEN IF IsTaggedComponent(cid, current) /\ IsEditableElement(ch, cid, cl, current)
       THEN current
       ELSE FindFrom(ch, cid, cl, ParentElement(ch, current), attempts + 1)
  ELSE Null

\* findClosestTaggedElement(element)
FindClosestTaggedElement(ch, cid, cl, e) == FindFrom(ch, cid, cl, e, 0)

(***************************************************************************)
(* Messages to the host window.                                            *)
(***************************************************************************)
NoData ==
  [componentId |-> Absent, tagName |-> "", textContent |-> <<>>,
   hasChildElements |-> FALSE]

Msg(type) == [type |-> type, data |-> NoData]

\* getDirectTextContent(el).text and .hasChildElements
DirectText(ch, e) ==
  LET texts == SelectSeq(ch[e], LAMBDA it : it.k = "text")
      Cat[i \in 0..Len(texts)] ==
        IF i = 0 THEN <<>> ELSE Cat[i - 1] \o texts[i].t
  IN  Cat[Len(texts)]

HasChildElements(ch, e) == \E i \in 1..Len(ch[e]) : ch[e][i].k = "elem"

\* extractComponentData(element) reporting the direct text of a container too
ExtractComponentDataDirect(ch, cid, e) ==
  [componentId |-> cid[e],
   tagName |-> TagName[e],
   textContent |-> Trim(DirectText(ch, e)),
   hasChildElements |-> HasChildElements(ch, e)]

\* extractComponentData(element)
ExtractComponentData(ch, cid, e) ==
  [componentId |-> cid[e],
   tagName |-> TagName[e],
   textContent |-> IF HasChildElements(ch, e) THEN <<>> ELSE Trim(DirectText(ch, e)),
   hasChildElements |-> HasChildElements(ch, e)]

IsAck(m) == m.type \in {"enabled", "disabled"}

(***************************************************************************)
(* Edits.  An update is the payload of an `update-element` message:        *)
(* instanceIndex is -1 when the payload has none, hasText is FALSE when    *)
(* textContent is undefined, styles lists the entries of the styles object *)
(* (none when it is undefined or empty).                                   *)
(***************************************************************************)
NoIndex == -1

NoUpdates ==
  [componentId |-> Absent, instanceIndex |-> NoIndex, hasText |-> FALSE,
   textContent |-> <<>>, styles |-> <<>>]

\* property.replace(/([A-Z])/g, '-$1').toLowerCase(), on the keys of the model
KebabCase(property) ==
  CASE property = "marginTop" -> "margin-top"
    [] property = "cssFloat" -> "css-float"
    [] OTHER -> property

\* the CSS property that the attribute element.style[property] stands for
StyleAttribute(property) ==
  CASE property = "marginTop" -> "margin-top"
    [] property = "cssFloat" -> "float"
    [] OTHER -> property

\* the values the style declaration accepts for a CSS property
CssAccepts(prop, value) ==
  CASE prop = "color" -> value \in {"red", "blue", "rgb(0, 0, 0)"}
    [] prop = "margin-top" -> value \in {"0px", "0em", "8px"}
    [] prop = "float" -> value \in {"left", "right"}
    [] OTHER -> FALSE

\* element.style.removeProperty(name)
RemoveProperty(decl, name) ==
  IF name \in CssProps THEN [decl EXCEPT ![name] = Absent] ELSE decl

\* element.style[property] = value
SetStyleAttribute(decl, property, value) ==
  LET prop == StyleAttribute(property)
  IN  IF prop \in CssProps /\ CssAccepts(prop, value)
      THEN [decl EXCEPT ![prop] = value] ELSE decl

\* the turn of the forEach setting the property by its hyphenated name
ApplyStyleEntryKebab(decl, property, value) ==
  IF value = "" \/ value = "0px"
  THEN RemoveProperty(decl, KebabCase(property))
  ELSE IF value # "" /\ value # "rgb(0, 0, 0)"
  THEN SetStyleAttribute(decl, KebabCase(property), value)
  ELSE decl

\* one turn of the forEach over Object.entries(styles)
ApplyStyleEntry(decl, property, value) ==
  IF value = "" \/ value = "0px"
  THEN RemoveProperty(decl, KebabCase(property))
  ELSE IF value # "" /\ value # "rgb(0, 0, 0)"
  THEN SetStyleAttribute(decl, property, value)
  ELSE decl

RECURSIVE ApplyStyles(_, _, _)
ApplyStyles(decl, entries, i) ==
  IF i > Len(entries) THEN decl
  ELSE ApplyStyles(ApplyStyleEntry(decl, entries[i][1], entries[i][2]),
                   entries, i + 1)

\* the text part of the deferred callback of updateElement
ApplyText(ch, e, textContent) ==
  LET textNodes ==
        SelectSeq(TextNodesFrom(ch, e, 1),
                  LAMBDA n : Trim(ch[n.p][n.i].t) # <<>>)
  IN  IF Len(textNodes) > 0
      THEN [ch EXCEPT ![textNodes[1].p][textNodes[1].i] = TextItem(textContent)]
      ELSE IF Len(ChildElements(ch, e)) = 0
      THEN [ch EXCEPT ![e] =
              IF textContent = <<>> THEN <<>> ELSE <<TextItem(textContent)>>]
      ELSE ch

(***************************************************************************)
(* Deferred callbacks.  A callback is a closure: its kind, the element it  *)
(* captured and, for an update, the payload.  A frame state d holds what   *)
(* the callbacks read and write.                                           *)
(***************************************************************************)
UpdateCallback(e, u) == [kind |-> "update", element |-> e, updates |-> u]
HoverCallback(e) == [kind |-> "hover", element |-> e, updates |-> NoUpdates]

\* the callback that updateElement passes to requestAnimationFrame
RunUpdate(d, cb) ==
  [d EXCEPT
     !.children = IF cb.updates.hasText
                  THEN ApplyText(@, cb.element, cb.updates.textContent) ELSE @,
     !.style = [@ EXCEPT ![cb.element] = ApplyStyles(@, cb.updates.styles, 1)]]

\* the hover callback without its comparison of the new target with the
\* selection
RunHoverUnchecked(d, cb, selected) ==
  LET cleared ==
        IF d.hoveredElement # Null /\ d.hoveredElement # selected
        THEN [d.classList EXCEPT ![d.hoveredElement] = @ \ {HOVER_CLASS}]
        ELSE d.classList
  IN  [d EXCEPT
         !.hoveredElement = cb.element,
         !.classList = [cleared EXCEPT ![cb.element] = @ \cup {HOVER_CLASS}]]

\* the hover callback without the removal of the previous hover
RunHoverKeeping(d, cb, selected) ==
  [d EXCEPT
     !.hoveredElement = cb.element,
     !.classList = IF cb.element # selected
                   THEN [d.classList EXCEPT ![cb.element] = @ \cup {HOVER_CLASS}]
                   ELSE d.classList]

\* the callback that handleMouseOver passes to requestAnimationFrame
RunHover(d, cb, selected) ==
  LET cleared ==
        IF d.hoveredElement # Null /\ d.hoveredElement # selected
        THEN [d.classList EXCEPT ![d.hoveredElement] = @ \ {HOVER_CLASS}]
        ELSE d.classList
  IN  [d EXCEPT
         !.hoveredElement = cb.element,
         !.classList = IF cb.element # selected
                       THEN [cleared EXCEPT ![cb.element] = @ \cup {HOVER_CLASS}]
                       ELSE cleared]

RunCallback(d, cb, selected) ==
  IF cb.kind = "update" THEN RunUpdate(d, cb) ELSE RunHover(d, cb, selected)

\* the frame state after the first n callbacks of the queue q have run
RECURSIVE RunCallbacks(_, _, _, _)
RunCallbacks(d, q, n, selected) ==
  IF n = 0 THEN d
  ELSE RunCallback(RunCallbacks(d, q, n - 1, selected), q[n], selected)

FrameState ==
  [children |-> children, style |-> style, classList |-> classList,
   hoveredElement |-> hoveredElement]

(***************************************************************************)
(* Mode transitions.                                                       *)
(***************************************************************************)
\* window.parent.postMessage(m, '*')
Post(m) == outbox' = Append(outbox, m)
CanPost == Len(outbox) < MaxOutbox

\* enableDesignMode() without its first line
EnableDesignModeUnguarded ==
  /\ CanPost
  /\ isDesignModeActive' = TRUE
  /\ classList' = [classList EXCEPT ![Body] = @ \cup {ACTIVE_CLASS}]
  /\ styleInjected' = TRUE
  /\ mutationObserver' = TRUE
  /\ LET a == ScanAndAutoTag(children,
                             [cid |-> componentId, at |-> autoTagged,
                              n |-> autoTagCounter],
                             Body)
     IN  /\ componentId' = a.cid
         /\ autoTagged' = a.at
         /\ autoTagCounter' = a.n
  /\ listeners' = TRUE
  /\ Post(Msg("enabled"))
  /\ UNCHANGED << selectedElement, hoveredElement, hoverTimeout, children,
                  style, rafQueue, hostSeen >>

\* enableDesignMode()
EnableDesignMode ==
  IF isDesignModeActive
  THEN UNCHANGED << overlayVars, docVars, rafQueue, outbox, hostSeen >>
  ELSE EnableDesignModeUnguarded

\* the classes after document.body.classList.remove(ACTIVE_CLASS) and the
\* forEach over querySelectorAll of the three highlight classes
ClearedClasses ==
  [e \in Elements |->
     IF InDocument(children, e)
     THEN classList[e] \ ({HOVER_CLASS, SELECTED_CLASS, HIGHLIGHT_CLASS}
                          \cup IF e = Body THEN {ACTIVE_CLASS} ELSE {})
     ELSE classList[e]]

\* disableDesignMode() without its last statement (no message to the parent)
DisableDesignModeSilent ==
  IF ~isDesignModeActive
  THEN UNCHANGED << overlayVars, docVars, rafQueue, outbox, hostSeen >>
  ELSE
    /\ isDesignModeActive' = FALSE
    /\ mutationObserver' = FALSE
    /\ classList' = ClearedClasses
    /\ listeners' = FALSE
    /\ selectedElement' = Null
    /\ hoveredElement' = Null
    /\ hoverTimeout' = FALSE
    /\ UNCHANGED << autoTagCounter, styleInjected, children, componentId,
                    autoTagged, style, rafQueue, hostSeen, outbox >>

\* disableDesignMode() without its call of stopMutationObserver
DisableDesignModeObserving ==
  IF ~isDesignModeActive
  THEN UNCHANGED << overlayVars, docVars, rafQueue, outbox, hostSeen >>
  ELSE
    /\ CanPost
    /\ isDesignModeActive' = FALSE
    /\ classList' = ClearedClasses
    /\ listeners' = FALSE
    /\ selectedElement' = Null
    /\ hoveredElement' = Null
    /\ hoverTimeout' = FALSE
    /\ Post(Msg("disabled"))
    /\ UNCHANGED << mutationObserver, autoTagCounter, styleInjected, children,
                    componentId, autoTagged, style, rafQueue, hostSeen >>

\* disableDesignMode()
DisableDesignMode ==
  IF ~isDesignModeActive
  THEN UNCHANGED << overlayVars, docVars, rafQueue, outbox, hostSeen >>
  ELSE
    /\ CanPost
    /\ isDesignModeActive' = FALSE
    /\ mutationObserver' = FALSE
    /\ classList' = ClearedClasses
    /\ listeners' = FALSE
    /\ selectedElement' = Null
    /\ hoveredElement' = Null
    /\ hoverTimeout' = FALSE
    /\ Post(Msg("disabled"))
    /\ UNCHANGED << autoTagCounter, styleInjected, children, componentId,
                    autoTagged, style, rafQueue, hostSeen >>

(***************************************************************************)
(* The message listener and the debugging API.                             *)
(***************************************************************************)
\* case '0x-design-mode:enable'
MsgEnable ==
  /\ EnableDesignMode
  /\ redundant' = IF isDesignModeActive THEN "enable" ELSE "none"
  /\ UNCHANGED << taggerVars, scriptVars >>

\* case '0x-design-mode:disable'
MsgDisable ==
  /\ DisableDesignMode
  /\ redundant' = IF isDesignModeActive THEN "none" ELSE "disable"
  /\ UNCHANGED << taggerVars, scriptVars >>

\* case '0x-design-mode:toggle'
MsgToggle ==
  /\ IF isDesignModeActive THEN DisableDesignMode ELSE EnableDesignMode
  /\ redundant' = "none"
  /\ UNCHANGED << taggerVars, scriptVars >>

\* window.__0xDesignMode.enable()
ApiEnable ==
  /\ EnableDesignMode
  /\ redundant' = IF isDesignModeActive THEN "enable" ELSE "none"
  /\ UNCHANGED << taggerVars, scriptVars >>

\* window.__0xDesignMode.disable()
ApiDisable ==
  /\ DisableDesignMode
  /\ redundant' = IF isDesignModeActive THEN "none" ELSE "disable"
  /\ UNCHANGED << taggerVars, scriptVars >>

\* document.querySelector(`[data-0x-component-id="${componentId}"]`)
QuerySelector(ch, cid, id) ==
  LET order == DocOrder(ch)
      hits == SelectSeq(order, LAMBDA e : cid[e] = id)
  IN  IF Len(hits) > 0 THEN hits[1] ELSE Null

\* updateElement(updates), up to its call of requestAnimationFrame
UpdateElement(u) ==
  LET element == QuerySelector(children, componentId, u.componentId)
  IN  IF element = Null
      THEN UNCHANGED rafQueue
      ELSE /\ Len(rafQueue) < MaxEdits
           /\ rafQueue' = Append(rafQueue, UpdateCallback(element, u))

\* an update-element command whose mutation is applied at once
MsgUpdateElementSync(u) ==
  /\ LET element == QuerySelector(children, componentId, u.componentId)
         d == IF element = Null THEN FrameState
              ELSE RunUpdate(FrameState, UpdateCallback(element, u))
     IN  /\ children' = d.children
         /\ style' = d.style
  /\ redundant' = "none"
  /\ UNCHANGED << overlayVars, componentId, autoTagged, classList, rafQueue,
                  outbox, hostSeen, taggerVars, scriptVars >>

\* case '0x-design-mode:update-element'
MsgUpdateElement(u) ==
  /\ UpdateElement(u)
  /\ redundant' = "none"
  /\ UNCHANGED << overlayVars, docVars, outbox, hostSeen, taggerVars, scriptVars >>

(***************************************************************************)
(* Pointer events, delivered to the capture-phase listeners.               *)
(***************************************************************************)
\* handleClick without the removal of the previous selection's class
HandleClickAdding(t) ==
  /\ listeners
  /\ IF ~isDesignModeActive
     THEN UNCHANGED << selectedElement, classList, outbox >>
     ELSE
       LET target == FindClosestTaggedElement(children, componentId, classList, t)
       IN  IF target = Null
           THEN UNCHANGED << selectedElement, classList, outbox >>
           ELSE /\ CanPost
                /\ selectedElement' = target
                /\ classList' =
                     [classList EXCEPT
                        ![target] = (@ \cup {SELECTED_CLASS}) \ {HOVER_CLASS}]
                /\ Post([type |-> "element-selected",
                         data |-> ExtractComponentData(children, componentId, target)])
  /\ UNCHANGED << isDesignModeActive, hoveredElement, hoverTimeout,
                  mutationObserver, autoTagCounter, listeners, styleInjected,
                  children, componentId, autoTagged, style, rafQueue, hostSeen,
                  taggerVars, scriptVars >>
  /\ redundant' = "none"

\* handleClick with the previous selection dropped before the target is
\* resolved
HandleClickDeselecting(t) ==
  /\ listeners
  /\ IF ~isDesignModeActive
     THEN UNCHANGED << selectedElement, classList, outbox >>
     ELSE
       LET target == FindClosestTaggedElement(children, componentId, classList, t)
           unselected ==
             IF selectedElement # Null
             THEN [classList EXCEPT ![selectedElement] = @ \ {SELECTED_CLASS}]
             ELSE classList
       IN  IF target = Null
           THEN /\ selectedElement' = Null
                /\ classList' = unselected
                /\ UNCHANGED outbox
           ELSE /\ CanPost
                /\ selectedElement' = target
                /\ classList' =
                     [unselected EXCEPT
                        ![target] = (@ \cup {SELECTED_CLASS}) \ {HOVER_CLASS}]
                /\ Post([type |-> "element-selected",
                         data |-> ExtractComponentData(children, componentId, target)])
  /\ UNCHANGED << isDesignModeActive, hoveredElement, hoverTimeout,
                  mutationObserver, autoTagCounter, listeners, styleInjected,
                  children, componentId, autoTagged, style, rafQueue, hostSeen,
                  taggerVars, scriptVars >>
  /\ redundant' = "none"

\* handleClick(event), event.target = t
HandleClick(t) ==
  /\ listeners
  /\ IF ~isDesignModeActive
     THEN UNCHANGED << selectedElement, classList, outbox >>
     ELSE
       LET target == FindClosestTaggedElement(children, componentId, classList, t)
           unselected ==
             IF selectedElement # Null
             THEN [classList EXCEPT ![selectedElement] = @ \ {SELECTED_CLASS}]
             ELSE classList
       IN  IF target = Null
           THEN UNCHANGED << selectedElement, classList, outbox >>
           ELSE /\ CanPost
                /\ selectedElement' = target
                /\ classList' =
                     [unselected EXCEPT
                        ![target] = (@ \cup {SELECTED_CLASS}) \ {HOVER_CLASS}]
                /\ Post([type |-> "element-selected",
                         data |-> ExtractComponentData(children, componentId, target)])
  /\ UNCHANGED << isDesignModeActive, hoveredElement, hoverTimeout,
                  mutationObserver, autoTagCounter, listeners, styleInjected,
                  children, componentId, autoTagged, style, rafQueue, hostSeen,
                  taggerVars, scriptVars >>
  /\ redundant' = "none"

\* handleMouseOver without the test of the throttle timer
HandleMouseOverUnthrottled(t) ==
  /\ listeners
  /\ IF ~isDesignModeActive
     THEN UNCHANGED << hoverTimeout, rafQueue >>
     ELSE
       LET target == FindClosestTaggedElement(children, componentId, classList, t)
       IN  /\ hoverTimeout' = TRUE
           /\ IF target = Null \/ target = hoveredElement
              THEN UNCHANGED rafQueue
              ELSE /\ Len(rafQueue) < MaxPending
                   /\ rafQueue' = Append(rafQueue, HoverCallback(target))
  /\ UNCHANGED << isDesignModeActive, selectedElement, hoveredElement,
                  mutationObserver, autoTagCounter, listeners, styleInjected,
                  docVars, outbox, hostSeen, taggerVars, scriptVars >>
  /\ redundant' = "none"

\* handleMouseOver(event), event.target = t
HandleMouseOver(t) ==
  /\ listeners
  /\ IF ~isDesignModeActive \/ hoverTimeout
     THEN UNCHANGED << hoverTimeout, rafQueue >>
     ELSE
       LET target == FindClosestTaggedElement(children, componentId, classList, t)
       IN  /\ hoverTimeout' = TRUE
           /\ IF target = Null \/ target = hoveredElement
              THEN UNCHANGED rafQueue
              ELSE /\ Len(rafQueue) < MaxPending
                   /\ rafQueue' = Append(rafQueue, HoverCallback(target))
  /\ UNCHANGED << isDesignModeActive, selectedElement, hoveredElement,
                  mutationObserver, autoTagCounter, listeners, styleInjected,
                  docVars, outbox, hostSeen, taggerVars, scriptVars >>
  /\ redundant' = "none"

\* the callback of the setTimeout in handleMouseOver
HoverTimeoutFires ==
  /\ hoverTimeout
  /\ hoverTimeout' = FALSE
  /\ UNCHANGED << isDesignModeActive, selectedElement, hoveredElement,
                  mutationObserver, autoTagCounter, listeners, styleInjected,
                  docVars, rafQueue, outbox, hostSeen, taggerVars, scriptVars >>
  /\ redundant' = "none"

\* handleMouseLeave(event), event.target = t
HandleMouseLeave(t) ==
  /\ listeners
  /\ IF ~isDesignModeActive
     THEN UNCHANGED << hoveredElement, classList >>
     ELSE
       LET target == FindClosestTaggedElement(children, componentId, classList, t)
       IN  IF target # Null /\ target = hoveredElement /\ target # selectedElement
           THEN /\ classList' = [classList EXCEPT ![hoveredElement] = @ \ {HOVER_CLASS}]
                /\ hoveredElement' = Null
           ELSE UNCHANGED << hoveredElement, classList >>
  /\ UNCHANGED << isDesignModeActive, selectedElement, hoverTimeout,
                  mutationObserver, autoTagCounter, listeners, styleInjected,
                  children, componentId, autoTagged, style, rafQueue, outbox,
                  hostSeen, taggerVars, scriptVars >>
  /\ redundant' = "none"

(***************************************************************************)
(* The event loop: an animation frame runs every pending callback in the   *)
(* order of the calls of requestAnimationFrame; the host takes a message.  *)
(***************************************************************************)
AnimationFrame ==
  /\ rafQueue # <<>>
  /\ LET d == RunCallbacks(FrameState, rafQueue, Len(rafQueue), selectedElement)
     IN  /\ children' = d.children
         /\ style' = d.style
         /\ classList' = d.classList
         /\ hoveredElement' = d.hoveredElement
  /\ rafQueue' = <<>>
  /\ UNCHANGED << isDesignModeActive, selectedElement, hoverTimeout,
                  mutationObserver, autoTagCounter, listeners, styleInjected,
                  componentId, autoTagged, outbox, hostSeen, taggerVars, scriptVars >>
  /\ redundant' = "none"

HostReceives ==
  /\ outbox # <<>>
  /\ outbox' = Tail(outbox)
  /\ hostSeen' = IF IsAck(Head(outbox)) THEN Head(outbox).type ELSE hostSeen
  /\ redundant' = "none"
  /\ UNCHANGED << overlayVars, docVars, rafQueue, taggerVars, scriptVars >>

(***************************************************************************)
(* The tagger.  Source text is a sequence of tokens; a token has a kind t, *)
(* for an attribute a name (a sequence of its pieces, so that a prefix of  *)
(* the name is a prefix of the sequence) and a value.  A column is counted *)
(* in tokens.  Of a file only its opening tags are modelled, in source     *)
(* order: the transform reads nothing else.  A path is a sequence of       *)
(* pieces, "/" and "." among them.                                         *)
(***************************************************************************)
Tok(t) == [t |-> t, name |-> <<>>, value |-> ""]
LT == Tok("<")
GT == Tok(">")
SLASH == Tok("/")
NL == Tok("\n")
CommentOpen == Tok("/*")
CommentClose == Tok("*/")
Spread == Tok("{...}")                                   \* {...props}
TypeName == Tok("type")                                  \* T of <List<T>>
Ident(n) == [t |-> "identifier", name |-> <<>>, value |-> n]    \* div, Button
Member(n) == [t |-> "member", name |-> <<>>, value |-> n]       \* Foo.Bar
Attr(name, value) == [t |-> "attribute", name |-> name, value |-> value]

RECURSIVE Join(_)
Join(pieces) == IF pieces = <<>> THEN "" ELSE Head(pieces) \o Join(Tail(pieces))

IsPrefix(p, s) == Len(p) <= Len(s) /\ SubSeq(s, 1, Len(p)) = p

\* the largest i with s[i] = x, 0 when there is none
LastIndexOf(s, x) ==
  IF \E i \in 1..Len(s) : s[i] = x
  THEN CHOOSE i \in 1..Len(s) : s[i] = x /\ \A j \in (i + 1)..Len(s) : s[j] # x
  ELSE 0

\* path.relative(rootDir, filePath), for a file below rootDir
GetRelativeFilePath(filePath, rootDir) ==
  IF IsPrefix(rootDir \o <<"/">>, filePath)
  THEN SubSeq(filePath, Len(rootDir) + 2, Len(filePath))
  ELSE filePath

\* path.basename(filePath, path.extname(filePath))
BaseName(filePath) ==
  LET file == SubSeq(filePath, LastIndexOf(filePath, "/") + 1, Len(filePath))
      dot == LastIndexOf(file, ".")
  IN  IF dot > 1 THEN SubSeq(file, 1, dot - 1) ELSE file

\* generateComponentId with the full path in place of the base name
GenerateComponentIdFromPath(componentName, filePath, line, column) ==
  componentName \o "_" \o Join(filePath) \o "_"
    \o ToString(line) \o "_" \o ToString(column)

\* generateComponentId(componentName, filePath, line, column)
GenerateComponentId(componentName, filePath, line, column) ==
  componentName \o "_" \o Join(BaseName(filePath)) \o "_"
    \o ToString(line) \o "_" \o ToString(column)

(***************************************************************************)
(* parse(code): the opening tags of the source, or a failure.  An element  *)
(* is [start, nameEnd, attributes, end, fragment]: the places of its "<",  *)
(* of the token after its name, of its attributes and of its closing ">".  *)
(***************************************************************************)
\* the least k >= from with code[k].t = t, 0 when there is none
IndexOf(code, t, from) ==
  IF \E k \in from..Len(code) : code[k].t = t
  THEN CHOOSE k \in from..Len(code) :
         code[k].t = t /\ \A j \in from..(k - 1) : code[j].t # t
  ELSE 0

ParseFailure == [ok |-> FALSE, elements |-> <<>>]

\* the attributes of an opening tag from token j on, up to its ">"
RECURSIVE ParseAttributes(_, _, _)
ParseAttributes(code, j, attributes) ==
  IF j > Len(code) THEN [ok |-> FALSE, end |-> 0, attributes |-> <<>>]
  ELSE CASE code[j].t = "/*" ->
              LET k == IndexOf(code, "*/", j + 1)
              IN  IF k = 0 THEN [ok |-> FALSE, end |-> 0, attributes |-> <<>>]
                  ELSE ParseAttributes(code, k + 1, attributes)
         [] code[j].t \in {"attribute", "{...}"} ->
              ParseAttributes(code, j + 1, Append(attributes, j))
         [] code[j].t = "/" ->
              IF j < Len(code) /\ code[j + 1].t = ">"
              THEN [ok |-> TRUE, end |-> j + 1, attributes |-> attributes]
              ELSE [ok |-> FALSE, end |-> 0, attributes |-> <<>>]
         [] code[j].t = ">" -> [ok |-> TRUE, end |-> j, attributes |-> attributes]
         [] OTHER -> [ok |-> FALSE, end |-> 0, attributes |-> <<>>]

RECURSIVE ParseFrom(_, _)
ParseFrom(code, i) ==
  IF i > Len(code) THEN [ok |-> TRUE, elements |-> <<>>]
  ELSE IF code[i].t = "\n" THEN ParseFrom(code, i + 1)
  ELSE IF code[i].t # "<" \/ i = Len(code) THEN ParseFailure
  ELSE IF code[i + 1].t = ">"
  THEN LET rest == ParseFrom(code, i + 2)
       IN  IF rest.ok
           THEN [ok |-> TRUE,
                 elements |-> <<[start |-> i, nameEnd |-> i + 1, attributes |-> <<>>,
                                 end |-> i + 1, fragment |-> TRUE]>> \o rest.elements]
           ELSE ParseFailure
  ELSE IF code[i + 1].t \notin {"identifier", "member"} THEN ParseFailure
  ELSE
    LET typed == i + 2 <= Len(code) /\ code[i + 2].t = "<"
        typeOk == i + 4 <= Len(code) /\ code[i + 3].t = "type" /\ code[i + 4].t = ">"
        tag == ParseAttributes(code, IF typed THEN i + 5 ELSE i + 2, <<>>)
        rest == ParseFrom(code, tag.end + 1)
    IN  IF (typed /\ ~typeOk) \/ ~tag.ok THEN ParseFailure
        ELSE IF ~rest.ok THEN ParseFailure
        ELSE [ok |-> TRUE,
              elements |-> <<[start |-> i, nameEnd |-> i + 2,
                              attributes |-> tag.attributes,
                              end |-> tag.end, fragment |-> FALSE]>> \o rest.elements]

Parse(code) == ParseFrom(code, 1)

\* loc.start.line and loc.start.column of the token at place i
LineOf(code, i) == 1 + Cardinality({j \in 1..(i - 1) : code[j].t = "\n"})
ColumnOf(code, i) ==
  Cardinality({j \in 1..(i - 1) :
                 code[j].t # "\n" /\ \A k \in j..(i - 1) : code[k].t # "\n"})

(***************************************************************************)
(* transformCode.                                                          *)
(***************************************************************************)
OurPrefix == <<"data-", "0x-">>                          \* 'data-0x-'

\* shouldTagElement(element)
ShouldTagElement(code, element) ==
  IF element.fragment THEN FALSE
  ELSE ~ \E k \in 1..Len(element.attributes) :
           /\ code[element.attributes[k]].t = "attribute"
           /\ IsPrefix(OurPrefix, code[element.attributes[k]].name)

\* openingElement.name.name, or 'UnknownComponent'
ElementName(code, element) ==
  IF code[element.start + 1].t = "identifier"
  THEN code[element.start + 1].value ELSE "UnknownComponent"

\* the insertion point of an element taken to have no attributes
InsertPosAtTagEnd(code, element) ==
  LET gt == IndexOf(code, ">", element.nameEnd)
  IN  IF gt > 1 /\ code[gt - 1].t = "/" THEN gt - 1 ELSE gt

\* the insertion point: before the first attribute, or before the first ">"
\* after the name (before the "/" preceding it, if there is one)
InsertPos(code, element) ==
  LET gt == IndexOf(code, ">", element.nameEnd)
  IN  IF Len(element.attributes) > 0 THEN element.attributes[1]
      ELSE IF gt > 1 /\ code[gt - 1].t = "/" THEN gt - 1
      ELSE gt

\* the attributes string built for one element
AttributesFor(code, element, relativeFilePath, opts) ==
  LET elementName == ElementName(code, element)
      line == LineOf(code, element.start)
      column == ColumnOf(code, element.start)
      id == GenerateComponentId(elementName, relativeFilePath, line, column)
  IN  <<Attr(opts.attributeName, id)>>
      \o (IF opts.includeFilePath
          THEN <<Attr(<<"data-", "0x-", "file">>, Join(relativeFilePath))>>
          ELSE <<>>)
      \o (IF opts.includeLineNumber
          THEN <<Attr(<<"data-", "0x-", "line">>, ToString(line)),
                 Attr(<<"data-", "0x-", "column">>, ToString(column))>>
          ELSE <<>>)
      \o <<Attr(<<"data-", "0x-", "component">>, elementName)>>

\* s.toString() after s.appendLeft(insertPos, ...) for each element of `tagged`
Splice(code, tagged, relativeFilePath, opts) ==
  LET insertPos == [k \in 1..Len(tagged) |-> InsertPos(code, tagged[k])]
      Inserted(i) ==
        IF \E k \in 1..Len(tagged) : insertPos[k] = i
        THEN AttributesFor(code, tagged[CHOOSE k \in 1..Len(tagged) : insertPos[k] = i],
                           relativeFilePath, opts)
        ELSE <<>>
      Out[i \in 0..Len(code)] ==
        IF i = 0 THEN <<>> ELSE Out[i - 1] \o Inserted(i) \o <<code[i]>>
  IN  Out[Len(code)]

NoResult == [status |-> "none", code |-> <<>>]           \* transform not called
NullResult == [status |-> "null", code |-> <<>>]         \* return null

ThrowResult == [status |-> "throw", code |-> <<>>]       \* an exception leaves the hook

\* transformCode without its try/catch
TransformCodeUncaught(code, filePath, opts) ==
  LET ast == Parse(code)
      relativeFilePath == GetRelativeFilePath(filePath, opts.rootDir)
      tagged == SelectSeq(ast.elements, LAMBDA el : ShouldTagElement(code, el))
  IN  IF ~ast.ok THEN ThrowResult
      ELSE IF Len(tagged) = 0 THEN NullResult
      ELSE [status |-> "code",
            code |-> Splice(code, tagged, relativeFilePath, opts)]

\* transformCode without its test of `modified`
TransformCodeAlways(code, filePath, opts) ==
  LET ast == Parse(code)
      relativeFilePath == GetRelativeFilePath(filePath, opts.rootDir)
      tagged == SelectSeq(ast.elements, LAMBDA el : ShouldTagElement(code, el))
  IN  IF ~ast.ok THEN NullResult
      ELSE [status |-> "code",
            code |-> Splice(code, tagged, relativeFilePath, opts)]

\* transformCode(code, filePath, options)
TransformCode(code, filePath, opts) ==
  LET ast == Parse(code)
      relativeFilePath == GetRelativeFilePath(filePath, opts.rootDir)
      tagged == SelectSeq(ast.elements, LAMBDA el : ShouldTagElement(code, el))
  IN  IF ~ast.ok THEN NullResult
      ELSE IF Len(tagged) = 0 THEN NullResult
      ELSE [status |-> "code",
            code |-> Splice(code, tagged, relativeFilePath, opts)]

(***************************************************************************)
(* The transform hook of the plugin.                                       *)
(***************************************************************************)
\* the regular expression made of a glob pattern by the chain of replace
\* calls: ** becomes .* , * becomes [^/]* , ? and . match any one piece
GlobToRegex(pattern) ==
  [i \in 1..Len(pattern) |->
     CASE pattern[i] = "**" -> ".*"
       [] pattern[i] = "*" -> "[^/]*"
       [] pattern[i] \in {"?", "."} -> "."
       [] OTHER -> pattern[i]]

\* the regular expression, from its i-th item on, matches a prefix of the
\* path from its j-th piece on
RECURSIVE MatchesAt(_, _, _, _)
MatchesAt(regex, i, str, j) ==
  IF i > Len(regex) THEN TRUE
  ELSE CASE regex[i] = ".*" ->
              \E k \in j..(Len(str) + 1) : MatchesAt(regex, i + 1, str, k)
         [] regex[i] = "[^/]*" ->
              \E k \in j..(Len(str) + 1) :
                /\ \A m \in j..(k - 1) : str[m] # "/"
                /\ MatchesAt(regex, i + 1, str, k)
         [] regex[i] = "." ->
              j <= Len(str) /\ MatchesAt(regex, i + 1, str, j + 1)
         [] OTHER ->
              j <= Len(str) /\ str[j] = regex[i] /\ MatchesAt(regex, i + 1, str, j + 1)

\* new RegExp(regexPattern).test(normalizedPath)
RegexTest(regex, str) == \E j \in 1..(Len(str) + 1) : MatchesAt(regex, 1, str, j)

\* shouldProcessFile(filePath, options)
ShouldProcessFile(filePath, opts) ==
  IF ~(Len(filePath) >= 2 /\ filePath[Len(filePath) - 1] = "."
       /\ filePath[Len(filePath)] \in {"jsx", "tsx"})
  THEN FALSE
  ELSE ~ \E k \in 1..Len(opts.exclude) :
           RegexTest(GlobToRegex(opts.exclude[k]), filePath)

\* transform(code, id)
Transform(code, id, opts) ==
  IF ~opts.enabled THEN NullResult
  ELSE IF ~ShouldProcessFile(id, opts) THEN NullResult
  ELSE TransformCode(code, id, opts)

\* DEFAULT_OPTIONS, where NODE_ENV is development and the working directory
\* is /app
DEFAULT_OPTIONS ==
  [enabled |-> TRUE,
   include |-> << <<"**", "/", "*", ".", "{jsx,tsx}">> >>,
   exclude |-> << <<"node_modules", "/", "**">>, <<"dist", "/", "**">>,
                  <<"build", "/", "**">>, <<"**", "/", "ui", "/", "**">> >>,
   attributeName |-> <<"data-", "0x-", "component-id">>,
   includeFilePath |-> TRUE,
   includeLineNumber |-> TRUE,
   rootDir |-> <<"/", "app">>]

\* DEFAULT_OPTIONS under the NODE_ENV of the process
DefaultOptions(nodeEnv) ==
  [DEFAULT_OPTIONS EXCEPT !.enabled = (nodeEnv = "development")]

\* { ...DEFAULT_OPTIONS, ...userOptions }: the options given are a record of
\* the fields that the caller has set
Merge(defaults, user) ==
  [k \in DOMAIN defaults |-> IF k \in DOMAIN user THEN user[k] ELSE defaults[k]]

NoUserOptions == [k \in {} |-> TRUE]                  \* componentTagger()
NoConfig == [mode |-> "none", root |-> <<>>]          \* configResolved not yet called

\* configResolved without its detection of the mode
ResolvedOptionsRootOnly(opts, user, c) ==
  [opts EXCEPT !.rootDir = IF "rootDir" \notin DOMAIN user THEN c.root ELSE @]

\* the options after configResolved(config)
ResolvedOptions(opts, user, c) ==
  [opts EXCEPT
     !.enabled = IF "enabled" \notin DOMAIN user THEN c.mode = "development" ELSE @,
     !.rootDir = IF "rootDir" \notin DOMAIN user THEN c.root ELSE @]

DevConfig == [mode |-> "development", root |-> <<"/", "app">>]
ProdConfig == [mode |-> "production", root |-> <<"/", "app">>]

(***************************************************************************)
(* The sources and the options the transform is run on.                    *)
(***************************************************************************)
MaxPieces == 2      \* opening tags and line breaks in a source file

Pieces ==
  { <<LT, Ident("div"), GT>>,
    <<LT, Ident("div"), Attr(<<"className">>, "box"), GT>>,
    <<LT, Ident("img"), SLASH, GT>>,
    <<LT, Ident("Button"), Spread, Attr(<<"variant">>, "primary"), SLASH, GT>>,
    <<LT, GT>>,
    <<LT, Member("Foo.Bar"), GT>>,
    <<LT, Ident("div"), Attr(<<"data-", "0x-", "file">>, "src/Old.tsx"), GT>>,
    <<LT, Ident("List"), LT, TypeName, GT, GT>>,
    <<LT, Ident("div"), CommentOpen, GT, CommentClose, GT>>,
    <<LT, Ident("div"), Attr(<<"className">>, "box")>>,
    <<NL>> }

\* what comes before the last piece of a source
Leaders ==
  { <<NL>>,
    <<LT, Ident("div"), GT>>,
    <<LT, Ident("img"), SLASH, GT>> }

\* the sources of at most n pieces: a piece after leaders, or nothing
RECURSIVE SourcesUpTo(_)
SourcesUpTo(n) ==
  IF n = 0 THEN {<<>>}
  ELSE LET shorter == SourcesUpTo(n - 1) \ {<<>>}
       IN  {<<>>} \cup Pieces \cup {l \o c : l \in Leaders, c \in shorter}

Sources == SourcesUpTo(MaxPieces)

PagePath == <<"/", "app", "/", "src", "/", "pages", "/", "Page", ".", "tsx">>
ListPath == <<"/", "app", "/", "src", "/", "pages", "/", "List", ".", "tsx">>
AdminPagePath == <<"/", "app", "/", "src", "/", "admin", "/", "Page", ".", "tsx">>

\* what the caller may set of the attributes written
UserOptionSets ==
  { NoUserOptions,
    [attributeName |-> <<"data-", "id">>],
    [attributeName |-> <<"data-", "id">>,
     includeFilePath |-> FALSE, includeLineNumber |-> FALSE] }

(***************************************************************************)
(* The commands a host sends.                                              *)
(***************************************************************************)
UpdateIds == {"li_List_5_8", "p_Page_7_4", "ul_List_3_4", "h2_Gone_9_2"}
UpdateIndexes == {NoIndex, 1}
UpdateTexts == {<<"New">>}
UpdateStyles ==
  { << <<"color", "">> >>,
    << <<"marginTop", "0px">> >>,
    << <<"marginTop", "0em">> >>,
    << <<"cssFloat", "">> >>,
    << <<"color", "blue">>, <<"marginTop", "">> >> }

\* payloads that edit text, and payloads that edit the style of a list item
Updates ==
  { [componentId |-> id, instanceIndex |-> k, hasText |-> TRUE,
     textContent |-> t, styles |-> <<>>] :
       id \in UpdateIds, k \in UpdateIndexes, t \in UpdateTexts }
  \cup
  { [componentId |-> "li_List_5_8", instanceIndex |-> NoIndex, hasText |-> FALSE,
     textContent |-> <<>>, styles |-> st] : st \in UpdateStyles }

TaggerIdle ==
  /\ files = <<>>
  /\ userOptions = NoUserOptions
  /\ config = NoConfig
  /\ options = DEFAULT_OPTIONS
  /\ outputs = <<>>
  /\ reruns = <<>>

\* the global error listener, the message listener, the console.error
\* override, the load listener and window.__0xDesignMode
AllInstalled == {"error", "message", "console.error", "load", "api"}

\* a URL is a sequence of its parts: the path, then query parameters and hash
HomeUrl == <<"/">>

\* the overlay after the script has run
OverlayInit ==
  /\ isDesignModeActive = FALSE
  /\ selectedElement = Null
  /\ hoveredElement = Null
  /\ hoverTimeout = FALSE
  /\ mutationObserver = FALSE
  /\ autoTagCounter = AutoTagSeed
  /\ listeners = FALSE
  /\ styleInjected = FALSE
  /\ children = InitChildren
  /\ componentId = InitComponentId
  /\ autoTagged = [e \in Elements |-> FALSE]
  /\ classList = InitClassList
  /\ style = InitStyle
  /\ rafQueue = <<>>
  /\ outbox = <<>>
  /\ hostSeen = "none"
  /\ redundant = "none"
  /\ installed = AllInstalled
  /\ location = HomeUrl

Init == OverlayInit /\ TaggerIdle

\* the overlay under the host's mode commands and the user's pointer
\* where the pointer goes: the body, the two list items, the bold text of
\* the paragraph and the badge
PointerTargets == {Body, 4, 5, 7, 9}

Next ==
  \/ MsgEnable
  \/ MsgDisable
  \/ MsgToggle
  \/ ApiEnable
  \/ ApiDisable
  \/ \E t \in PointerTargets : HandleClick(t)
  \/ \E t \in PointerTargets : HandleMouseOver(t)
  \/ \E t \in PointerTargets : HandleMouseLeave(t)
  \/ HoverTimeoutFires
  \/ AnimationFrame
  \/ HostReceives

Spec == Init /\ [][Next]_vars

\* the overlay under the host's mode commands and edits
UpdateNext ==
  \/ MsgToggle
  \/ \E u \in Updates : Len(rafQueue) < MaxPending /\ MsgUpdateElement(u)
  \/ AnimationFrame
  \/ HostReceives

UpdateSpec == Init /\ [][UpdateNext]_vars

(***************************************************************************)
(* The page at work under the observer: its scripts take the paragraph or  *)
(* the heading out of the root and put it back at the end, and insert and  *)
(* remove the section that holds a span.  The observer's                   *)
(* callback is a microtask: it runs at the end of the script that changed  *)
(* the document, before any other event is handled, so a step of the page  *)
(* includes it.                                                            *)
(***************************************************************************)
Movable == {6, 8, 12}
Root == 2

\* root.removeChild(e): the observer's callback finds no added node
PageRemoves(e) ==
  /\ ParentElement(children, e) = Root
  /\ children' = [children EXCEPT ![Root] =
                    SelectSeq(@, LAMBDA it : ~(it.k = "elem" /\ it.e = e))]
  /\ redundant' = "none"
  /\ UNCHANGED << overlayVars, componentId, autoTagged, classList, style,
                  rafQueue, outbox, hostSeen, taggerVars, scriptVars >>

\* root.appendChild(e), and the observer's callback for the added node
PageAppends(e) ==
  /\ ~InDocument(children, e)
  /\ children' = [children EXCEPT ![Root] = Append(@, ElemItem(e))]
  /\ IF mutationObserver
     THEN LET a == ScanAndAutoTag(children',
                                  [cid |-> componentId, at |-> autoTagged,
                                   n |-> autoTagCounter],
                                  e)
          IN  /\ componentId' = a.cid
              /\ autoTagged' = a.at
              /\ autoTagCounter' = a.n
     ELSE UNCHANGED << componentId, autoTagged, autoTagCounter >>
  /\ redundant' = "none"
  /\ UNCHANGED << isDesignModeActive, selectedElement, hoveredElement,
                  hoverTimeout, mutationObserver, listeners, styleInjected,
                  classList, style, rafQueue, outbox, hostSeen, taggerVars, scriptVars >>

ObserverNext ==
  \/ MsgEnable
  \/ MsgDisable
  \/ MsgToggle
  \/ \E e \in Movable : PageRemoves(e)
  \/ \E e \in Movable : PageAppends(e)
  \/ HostReceives

ObserverSpec == Init /\ [][ObserverNext]_vars

(***************************************************************************)
(* The overlay in a deeply nested document: every element but the last has *)
(* one child, the next element; the last holds a text.  Which elements the *)
(* build has tagged and which element is the branding link vary.           *)
(***************************************************************************)
DeepChildren ==
  [e \in Elements |->
     IF e < 13 THEN <<ElemItem(e + 1)>> ELSE <<TextItem(<<"Hi">>)>>]

ResolveInit ==
  /\ isDesignModeActive = FALSE
  /\ selectedElement = Null
  /\ hoveredElement = Null
  /\ hoverTimeout = FALSE
  /\ mutationObserver = FALSE
  /\ autoTagCounter = AutoTagSeed
  /\ listeners = FALSE
  /\ styleInjected = FALSE
  /\ children = DeepChildren
  /\ \E tagged \in SUBSET {Body, Root, 3, 4} :
       componentId = [e \in Elements |->
                        IF e \in tagged THEN "built-" \o ToString(e) ELSE Absent]
  /\ autoTagged = [e \in Elements |-> FALSE]
  /\ \E branding \in {Null, 4, 5} :
       classList = [e \in Elements |->
                      IF e = branding THEN {BRANDING_CLASS} ELSE {}]
  /\ style = [e \in Elements |-> NoInline]
  /\ rafQueue = <<>>
  /\ outbox = <<>>
  /\ hostSeen = "none"
  /\ redundant = "none"
  /\ installed = AllInstalled
  /\ location = HomeUrl
  /\ TaggerIdle

ResolveNext ==
  \/ MsgEnable
  \/ MsgDisable
  \/ \E t \in {Root, 3, 12, 13} : HandleClick(t)
  \/ HostReceives

ResolveSpec == ResolveInit /\ [][ResolveNext]_vars

(***************************************************************************)
(* The overlay's sweep over rendered content: the body holds one element,  *)
(* the subject, which holds up to six leaf elements and may hold a text of *)
(* its own; the leaves are all empty or all hold a text.                   *)
(***************************************************************************)
Subjects == {3, 4, 6, 9, 12}       \* ul, li, p, a, section

\* the elements other than the body and the subject s, in ascending order
LeafPool(s) ==
  LET P[e \in 1..13] ==
        (IF e = 1 THEN <<>> ELSE P[e - 1])
        \o (IF e \in {Body, s} THEN <<>> ELSE <<e>>)
  IN  P[13]

RenderedChildren(s, k, own, leafText) ==
  LET leaves == SubSeq(LeafPool(s), 1, k)
  IN  [e \in Elements |->
         IF e = Body THEN <<ElemItem(s)>>
         ELSE IF e = s
              THEN [i \in 1..k |-> ElemItem(leaves[i])]
                   \o (IF own = <<>> THEN <<>> ELSE <<TextItem(own)>>)
         ELSE IF \E i \in 1..k : leaves[i] = e
              THEN (IF leafText THEN <<TextItem(<<"Hi">>)>> ELSE <<>>)
         ELSE <<>>]

SweepInit ==
  /\ isDesignModeActive = FALSE
  /\ selectedElement = Null
  /\ hoveredElement = Null
  /\ hoverTimeout = FALSE
  /\ mutationObserver = FALSE
  /\ autoTagCounter = AutoTagSeed
  /\ listeners = FALSE
  /\ styleInjected = FALSE
  /\ \E s \in Subjects, k \in 0..6, own \in {<<>>, <<" ">>, <<" ", "Hi">>},
        leafText \in BOOLEAN, built \in BOOLEAN :
       /\ children = RenderedChildren(s, k, own, leafText)
       /\ componentId = [e \in Elements |->
                           IF built /\ e = s THEN "built-" \o ToString(e)
                           ELSE Absent]
  /\ autoTagged = [e \in Elements |-> FALSE]
  /\ classList = [e \in Elements |-> {}]
  /\ style = [e \in Elements |-> NoInline]
  /\ rafQueue = <<>>
  /\ outbox = <<>>
  /\ hostSeen = "none"
  /\ redundant = "none"
  /\ installed = AllInstalled
  /\ location = HomeUrl
  /\ TaggerIdle

SweepNext ==
  \/ MsgEnable
  \/ MsgDisable
  \/ HostReceives

SweepSpec == SweepInit /\ [][SweepNext]_vars

(***************************************************************************)
(* The script from its first line: the global error listener is installed, *)
(* then the guarded block runs; Init below is the state before the script. *)
(* Of the guarded block the statements that call into the page are steps   *)
(* where it can throw: registering the message listener, replacing         *)
(* console.error, registering the load listener, assigning the API.        *)
(***************************************************************************)
ErrorEvents ==
  { [message |-> "Script error.", filename |-> "", lineno |-> 0],
    [message |-> "TypeError: x is undefined", filename |-> "app.js", lineno |-> 3],
    [message |-> "", filename |-> "app.js", lineno |-> 7] }

Urls == {HomeUrl, <<"/about", "?_t=1">>, <<"/about", "#team">>}

\* the message the global error listener posts for the event ev
ConsoleErrorOf(ev) ==
  [type |-> "console-error",
   data |-> [message |-> IF ev.message = "" THEN "Unknown error" ELSE ev.message,
             filename |-> ev.filename,
             lineno |-> ev.lineno]]

\* the script runs; throwAt = 0: the guarded block completes; otherwise its
\* throwAt-th step throws and the catch block runs
RunScript(throwAt) ==
  LET steps == <<"message", "console.error", "load", "api">>
      done == IF throwAt = 0 THEN Len(steps) ELSE throwAt - 1
      now == {"error"} \cup {steps[i] : i \in 1..done}
  IN  /\ installed = {}
      /\ installed' = now
      /\ outbox' =
           IF throwAt = 0 THEN outbox
           ELSE outbox
                \o (IF "console.error" \in now
                    THEN <<[type |-> "console-error",
                            data |-> [message |-> "FATAL: Script initialization failed",
                                      filename |-> "", lineno |-> 0]]>>
                    ELSE <<>>)
                \o <<Msg("init-error")>>
      /\ redundant' = "none"
      /\ UNCHANGED << overlayVars, docVars, rafQueue, hostSeen, taggerVars,
                      location >>

\* the listener of window's error events
WindowError(ev) ==
  /\ "error" \in installed
  /\ CanPost
  /\ Post(ConsoleErrorOf(ev))
  /\ redundant' = "none"
  /\ UNCHANGED << overlayVars, docVars, rafQueue, hostSeen, taggerVars,
                  scriptVars >>

\* the page calls history.pushState or replaceState, or its hash changes:
\* the script has registered nothing for it
Navigate(url) ==
  /\ installed # {}
  /\ url # location
  /\ location' = url
  /\ redundant' = "none"
  /\ UNCHANGED << overlayVars, docVars, rafQueue, outbox, hostSeen,
                  taggerVars, installed >>

ScriptInit ==
  /\ isDesignModeActive = FALSE
  /\ selectedElement = Null
  /\ hoveredElement = Null
  /\ hoverTimeout = FALSE
  /\ mutationObserver = FALSE
  /\ autoTagCounter = AutoTagSeed
  /\ listeners = FALSE
  /\ styleInjected = FALSE
  /\ children = InitChildren
  /\ componentId = InitComponentId
  /\ autoTagged = [e \in Elements |-> FALSE]
  /\ classList = InitClassList
  /\ style = InitStyle
  /\ rafQueue = <<>>
  /\ outbox = <<>>
  /\ hostSeen = "none"
  /\ redundant = "none"
  /\ installed = {}
  /\ location = HomeUrl
  /\ TaggerIdle

ScriptNext ==
  \/ \E throwAt \in 0..4 : RunScript(throwAt)
  \/ \E ev \in ErrorEvents : WindowError(ev)
  \/ \E url \in Urls : Navigate(url)
  \/ "message" \in installed /\ MsgEnable
  \/ "message" \in installed /\ MsgDisable
  \/ HostReceives

ScriptSpec == ScriptInit /\ [][ScriptNext]_vars

(***************************************************************************)
(* The tagger at work: a project of two files, the second one the page of  *)
(* another directory; the build of a development server, after it has      *)
(* resolved its config, calls the hook on a file, and on what the hook     *)
(* returned for it.                                                        *)
(***************************************************************************)
Files == {1, 2}

TaggerInit ==
  /\ OverlayInit
  /\ \E c \in Sources, p \in {PagePath, ListPath} :
       files = << [path |-> p, code |-> c],
                  [path |-> AdminPagePath, code |-> <<LT, Ident("div"), GT>>] >>
  /\ userOptions \in UserOptionSets
  /\ config = DevConfig
  /\ options = ResolvedOptions(Merge(DEFAULT_OPTIONS, userOptions), userOptions, config)
  /\ outputs = [f \in Files |-> NoResult]
  /\ reruns = [f \in Files |-> NoResult]

TransformFile(f) ==
  /\ config # NoConfig
  /\ outputs' = [outputs EXCEPT ![f] = Transform(files[f].code, files[f].path, options)]
  /\ UNCHANGED << files, userOptions, config, options, reruns,
                  overlayVars, docVars, chanVars, scriptVars >>

TransformAgain(f) ==
  /\ outputs[f].status = "code"
  /\ reruns' = [reruns EXCEPT ![f] = Transform(outputs[f].code, files[f].path, options)]
  /\ UNCHANGED << files, userOptions, config, options, outputs,
                  overlayVars, docVars, chanVars, scriptVars >>

TaggerNext ==
  \/ \E f \in Files : TransformFile(f)
  \/ \E f \in Files : TransformAgain(f)

TaggerSpec == TaggerInit /\ [][TaggerNext]_vars

(***************************************************************************)
(* The plugin from its construction on: componentTagger(userOptions) under *)
(* some NODE_ENV, then Vite's configResolved, then the transform hook on   *)
(* the files of the project.                                               *)
(***************************************************************************)
UiButtonPath ==
  <<"/", "app", "/", "src", "/", "components", "/", "ui", "/", "Button", ".", "tsx">>
VendorPath == <<"/", "app", "/", "node_modules", "/", "pkg", "/", "Index", ".", "jsx">>
SrcPagePath == <<"/", "app", "/", "src", "/", "Page", ".", "tsx">>
UtilsPath == <<"/", "app", "/", "src", "/", "pages", "/", "utils", ".", "ts">>

HookPaths == {PagePath, UiButtonPath, VendorPath, SrcPagePath, UtilsPath}

\* what the caller may set of the plugin's switch and of its file patterns
HookUserOptions ==
  { NoUserOptions,
    [enabled |-> TRUE],
    [enabled |-> FALSE],
    [include |-> << <<"src", "/", "admin", "/", "**">> >>],
    [include |-> << <<"**", "/", "ui", "/", "**">> >>],
    [exclude |-> << <<"src", "/", "**", "/", "Page", ".", "tsx">> >>] }

HookSources == SourcesUpTo(1)

PluginInit ==
  /\ OverlayInit
  /\ \E c \in HookSources, p \in HookPaths :
       files = << [path |-> p, code |-> c],
                  [path |-> AdminPagePath, code |-> <<LT, Ident("div"), GT>>] >>
  /\ userOptions \in HookUserOptions
  /\ config = NoConfig
  /\ \E nodeEnv \in {"development", "production"} :
       options = Merge(DefaultOptions(nodeEnv), userOptions)
  /\ outputs = [f \in Files |-> NoResult]
  /\ reruns = [f \in Files |-> NoResult]

\* configResolved(config)
ConfigResolved(c) ==
  /\ config = NoConfig
  /\ config' = c
  /\ options' = ResolvedOptions(options, userOptions, c)
  /\ UNCHANGED << files, userOptions, outputs, reruns,
                  overlayVars, docVars, chanVars, scriptVars >>

PluginNext ==
  \/ \E c \in {DevConfig, ProdConfig} : ConfigResolved(c)
  \/ \E f \in Files : TransformFile(f)
  \/ \E f \in Files : TransformAgain(f)

PluginSpec == PluginInit /\ [][PluginNext]_vars

(***************************************************************************)
(* Properties of the overlay's mode.                                       *)
(***************************************************************************)
\* an enable handled while active, or a disable handled while inactive
RedundantCommand ==
  \/ (MsgEnable \/ ApiEnable) /\ isDesignModeActive
  \/ (MsgDisable \/ ApiDisable) /\ ~isDesignModeActive

\* C1: handling enable (message or debugging API) while the overlay is
\* active, or disable while it is inactive, changes no overlay state (mode
\* flag, selection, hover, throttle timer, observer, listeners, classes of
\* the document) and posts nothing to the host.
C1_ModeIdempotent ==
  [][RedundantCommand => UNCHANGED << overlayVars, docVars, rafQueue, outbox >>]_vars

\* an enable has just been handled while the overlay was active, with an
\* element selected and the ack of the first enable still on its way
C1_Witness ==
  /\ redundant = "enable"
  /\ isDesignModeActive
  /\ selectedElement # Null
  /\ outbox # <<>>

Acks(q) == SelectSeq(q, IsAck)

\* the ack posted last: the last one on its way, else the last one delivered
LastAck ==
  IF Acks(outbox) # <<>> THEN Acks(outbox)[Len(Acks(outbox))].type ELSE hostSeen

ModeName == IF isDesignModeActive THEN "enabled" ELSE "disabled"

Before(n) == RunCallbacks(FrameState, rafQueue, n - 1, selectedElement)
After(n) == RunCallbacks(FrameState, rafQueue, n, selectedElement)
QueuedUpdates == {n \in 1..Len(rafQueue) : rafQueue[n].kind = "update"}

\* the live elements that carry the component id, in document order
Matches(ch, cid, id) == SelectSeq(DocOrder(ch), LAMBDA e : cid[e] = id)

\* the place among them that the payload names
InstanceOf(u) == IF u.instanceIndex = NoIndex THEN 1 ELSE u.instanceIndex + 1

\* C3: when N live elements share a component id, an update with instance
\* index k mutates the k-th of them in document order and leaves the text
\* and the inline styles of the other N-1 unchanged; without an instance
\* index it mutates the first.
C3_InstanceDisambiguation ==
  \A n \in QueuedUpdates :
    LET u == rafQueue[n].updates
        hits == Matches(Before(n).children, componentId, u.componentId)
    IN  InstanceOf(u) <= Len(hits) =>
          \A m \in 1..Len(hits) :
            m # InstanceOf(u) =>
              /\ After(n).children[hits[m]] = Before(n).children[hits[m]]
              /\ After(n).style[hits[m]] = Before(n).style[hits[m]]

\* the element has a text node of its own that is not blank
HasDirectText(ch, e) ==
  \E i \in 1..Len(ch[e]) : ch[e][i].k = "text" /\ Trim(ch[e][i].t) # <<>>

\* C4: a text update of an element that has child elements alters no child
\* element and no text inside a descendant; it replaces the element's first
\* direct text node only, and leaves the whole subtree as it was when the
\* element has no direct text node.
C4_TextUpdateSafety ==
  \A n \in QueuedUpdates :
    LET e == rafQueue[n].element
        b == Before(n).children
        a == After(n).children
    IN  (rafQueue[n].updates.hasText /\ HasChildElements(b, e)) =>
          /\ ChildElements(a, e) = ChildElements(b, e)
          /\ \A i \in 1..Len(Descendants(b, e)) :
               a[Descendants(b, e)[i]] = b[Descendants(b, e)[i]]
          /\ ~HasDirectText(b, e) => a[e] = b[e]

ZeroLengths == {"0px", "0em"}

\* C5: after an update, the element has no inline value for a property whose
\* entry is the empty string or a zero length, and the properties the update
\* does not name are as they were.
C5_StyleReset ==
  \A n \in QueuedUpdates :
    LET e == rafQueue[n].element
        entries == rafQueue[n].updates.styles
        named == {StyleAttribute(entries[i][1]) : i \in 1..Len(entries)}
    IN  /\ \A i \in 1..Len(entries) :
             entries[i][2] \in {""} \cup ZeroLengths =>
               After(n).style[e][StyleAttribute(entries[i][1])] = Absent
        /\ \A prop \in CssProps \ named :
             After(n).style[e][prop] = Before(n).style[e][prop]

\* no live element is the one that the payload names
ResolutionMiss(u) ==
  InstanceOf(u) > Len(Matches(children, componentId, u.componentId))

\* C6: when no live element matches the identity and the instance index of
\* an update, updateElement schedules no callback and changes nothing in the
\* document or in the overlay's state.
C6_ResolutionMiss ==
  [][\A u \in Updates :
       (MsgUpdateElement(u) /\ ResolutionMiss(u))
         => UNCHANGED << rafQueue, docVars, overlayVars >>]_vars

(***************************************************************************)
(* Properties of the tagger.                                               *)
(***************************************************************************)
\* C7: the transform, run on its own output, adds no attribute: the second
\* run reports no change, for every source and every setting of the options.
C7_TaggerIdempotent ==
  \A f \in Files : reruns[f].status # "none" => reruns[f].status = "null"

AttributeTokens(code, element) ==
  [k \in 1..Len(element.attributes) |-> code[element.attributes[k]]]

Named(tokens, name) ==
  SelectSeq(tokens, LAMBDA a : a.t = "attribute" /\ a.name = name)

IsOurs(a) == a.t = "attribute" /\ IsPrefix(OurPrefix, a.name)

\* the element qualifies: it is no fragment and has no data-0x- attribute
Qualifies(code, element) ==
  /\ ~element.fragment
  /\ \A k \in 1..Len(element.attributes) : ~IsOurs(code[element.attributes[k]])

\* the attributes `after` are the attributes `before` and one each of the
\* five, the component id built of the name, the base name of the file, and
\* the line and the column that the line and column attributes give
GainsTheFive(before, after, path) ==
  LET id == Named(after, <<"data-", "0x-", "component-id">>)
      file == Named(after, <<"data-", "0x-", "file">>)
      line == Named(after, <<"data-", "0x-", "line">>)
      column == Named(after, <<"data-", "0x-", "column">>)
      component == Named(after, <<"data-", "0x-", "component">>)
  IN  /\ Len(id) = 1 /\ Len(file) = 1 /\ Len(line) = 1
      /\ Len(column) = 1 /\ Len(component) = 1
      /\ SelectSeq(after, LAMBDA a : ~IsOurs(a)) = before
      /\ id[1].value = component[1].value \o "_" \o Join(BaseName(path)) \o "_"
                         \o line[1].value \o "_" \o column[1].value

\* C8: in an eligible file, with the default options, every element that is
\* no fragment and has no data-0x- attribute gains exactly one each of the
\* five attributes, its component id being name_base_line_column with the
\* line and the column of its line and column attributes; a fragment and an
\* element already tagged gain nothing.
C8_EveryQualifyingElementTagged ==
  \A f \in Files :
    LET code == files[f].code
        ast == Parse(code)
        out == IF outputs[f].status = "code" THEN outputs[f].code ELSE code
        outAst == Parse(out)
    IN  (/\ outputs[f].status # "none"
         /\ options = DEFAULT_OPTIONS
         /\ ShouldProcessFile(files[f].path, options)
         /\ ast.ok)
        => /\ outAst.ok
           /\ Len(outAst.elements) = Len(ast.elements)
           /\ \A m \in 1..Len(ast.elements) :
                LET before == AttributeTokens(code, ast.elements[m])
                    after == AttributeTokens(out, outAst.elements[m])
                IN  IF Qualifies(code, ast.elements[m])
                    THEN GainsTheFive(before, after, files[f].path)
                    ELSE after = before

\* the component ids that the transform gave to the elements of a file, each
\* with the name, the base name, the line and the column of its element
IdTokens(f) == Named(outputs[f].code, options.attributeName)

TaggedElements(f) ==
  IF outputs[f].status # "code" THEN <<>>
  ELSE LET code == files[f].code
           tagged == SelectSeq(Parse(code).elements,
                               LAMBDA el : ShouldTagElement(code, el))
       IN  [m \in 1..Len(tagged) |->
              [name |-> code[tagged[m].start + 1].value,
               base |-> BaseName(files[f].path),
               line |-> LineOf(code, tagged[m].start),
               column |-> ColumnOf(code, tagged[m].start),
               id |-> IdTokens(f)[m].value]]

Sites == [f \in Files |-> TaggedElements(f)]

\* C9: no two distinct elements of the project's source, of one file or of
\* two, are given the same component id.
C9_ComponentIdUnique ==
  LET sites == Sites
  IN  \A f, g \in Files :
        \A m \in 1..Len(sites[f]), n \in 1..Len(sites[g]) :
          <<f, m>> # <<g, n>> => sites[f][m].id # sites[g][n].id

\* the two elements agree in tag name, base name of the file, line and column
SamePosition(s, t) ==
  /\ s.name = t.name
  /\ s.base = t.base
  /\ s.line = t.line
  /\ s.column = t.column

\* C10: the component id of an element depends on nothing but its tag name,
\* the base name of its file, its line and its column: two elements that
\* agree in these four are given the same id, whatever the directories of
\* their files and the rest of their source.
C10_IdDependsOnPosition ==
  LET sites == Sites
  IN  \A f, g \in Files :
        \A m \in 1..Len(sites[f]), n \in 1..Len(sites[g]) :
          SamePosition(sites[f][m], sites[g][n]) => sites[f][m].id = sites[g][n].id

\* two files of one base name in two directories each have a div at the same
\* line and column, and both have been transformed
C10_Witness ==
  LET sites == Sites
  IN  /\ GetRelativeFilePath(files[1].path, options.rootDir)
           # GetRelativeFilePath(files[2].path, options.rootDir)
      /\ \E m \in 1..Len(sites[1]), n \in 1..Len(sites[2]) :
           SamePosition(sites[1][m], sites[2][n])

(***************************************************************************)
(* Properties of the plugin's file patterns.  A glob matches a path taken  *)
(* relative to the root: ** followed by / stands for any number of whole   *)
(* directories (none among them), a last ** for whatever remains, * for a  *)
(* run within one name, ? for one piece of a name, {jsx,tsx} for either,   *)
(* and every other piece for itself.                                       *)
(***************************************************************************)
RECURSIVE GlobMatchesAt(_, _, _, _)
GlobMatchesAt(pattern, i, str, j) ==
  IF i > Len(pattern) THEN j > Len(str)
  ELSE CASE pattern[i] = "**" /\ i < Len(pattern) /\ pattern[i + 1] = "/" ->
              \/ GlobMatchesAt(pattern, i + 2, str, j)
              \/ \E k \in j..Len(str) :
                   str[k] = "/" /\ GlobMatchesAt(pattern, i + 2, str, k + 1)
         [] pattern[i] = "**" /\ ~(i < Len(pattern) /\ pattern[i + 1] = "/") ->
              \E k \in j..(Len(str) + 1) : GlobMatchesAt(pattern, i + 1, str, k)
         [] pattern[i] = "*" ->
              \E k \in j..(Len(str) + 1) :
                /\ \A m \in j..(k - 1) : str[m] # "/"
                /\ GlobMatchesAt(pattern, i + 1, str, k)
         [] pattern[i] = "?" ->
              j <= Len(str) /\ str[j] # "/" /\ GlobMatchesAt(pattern, i + 1, str, j + 1)
         [] pattern[i] = "{jsx,tsx}" ->
              /\ j <= Len(str) /\ str[j] \in {"jsx", "tsx"}
              /\ GlobMatchesAt(pattern, i + 1, str, j + 1)
         [] OTHER ->
              j <= Len(str) /\ str[j] = pattern[i]
                /\ GlobMatchesAt(pattern, i + 1, str, j + 1)

GlobMatches(pattern, filePath) ==
  GlobMatchesAt(pattern, 1, GetRelativeFilePath(filePath, config.root), 1)

MatchesSome(patterns, filePath) ==
  \E k \in 1..Len(patterns) : GlobMatches(patterns[k], filePath)

\* C11: for a file whose path matches one of the exclude globs the hook
\* returns null, whatever the include patterns and the source of the file.
C11_ExcludedNeverModified ==
  \A f \in Files :
    MatchesSome(options.exclude, files[f].path) => outputs[f].status # "code"

\* C12: a file is transformed only if its path matches one of the patterns
\* of the include option.
C12_IncludeHonoured ==
  \A f \in Files :
    outputs[f].status = "code" => MatchesSome(options.include, files[f].path)

(***************************************************************************)
(* Properties of the place of the injected attributes.  The elements that  *)
(* qualify are taken in source order; each of them is given the same       *)
(* number of attributes, so the m-th finds the tokens of the source before *)
(* it moved right by m - 1 times that number.                              *)
(***************************************************************************)
InjectedCount ==
  2 + (IF options.includeFilePath THEN 1 ELSE 0)
    + (IF options.includeLineNumber THEN 2 ELSE 0)

IsInjected(a) ==
  a.t = "attribute" /\ (a.name = options.attributeName \/ IsPrefix(OurPrefix, a.name))

QualifyingElements(code) ==
  SelectSeq(Parse(code).elements, LAMBDA el : Qualifies(code, el))

\* in the output `out` of `code`, the attributes of the m-th qualifying
\* element stand immediately before the token that is at place q of the
\* source, and the source from q to the end of the tag follows them unchanged
InjectedBefore(code, out, m, q, end) ==
  LET j == q + InjectedCount * (m - 1)
  IN  /\ j + InjectedCount + (end - q) <= Len(out)
      /\ \A k \in j..(j + InjectedCount - 1) : IsInjected(out[k])
      /\ Len(Named(SubSeq(out, j, j + InjectedCount - 1), options.attributeName)) = 1
      /\ out[j - 1] = code[q - 1]
      /\ SubSeq(out, j + InjectedCount, j + InjectedCount + (end - q))
           = SubSeq(code, q, end)

\* C13: for every tagged element that has attributes, a leading spread
\* among them, the injected attributes stand immediately before the first
\* original attribute, and the original attributes follow, unmodified and in
\* their order.
C13_PlacementBeforeFirstAttribute ==
  \A f \in Files :
    outputs[f].status = "code" =>
      LET code == files[f].code
          tagged == QualifyingElements(code)
      IN  \A m \in 1..Len(tagged) :
            Len(tagged[m].attributes) > 0 =>
              InjectedBefore(code, outputs[f].code, m,
                             tagged[m].attributes[1], tagged[m].end)

\* a file has been transformed whose second qualifying element begins its
\* attributes with a spread
C13_Witness ==
  /\ outputs[1].status = "code"
  /\ LET code == files[1].code
         tagged == QualifyingElements(code)
     IN  /\ Len(tagged) = 2
         /\ Len(tagged[2].attributes) = 2
         /\ code[tagged[2].attributes[1]].t = "{...}"

\* C14: for every tagged element without attributes, the injected attributes
\* stand inside its own opening tag, immediately before its closing ">" (or
\* before the "/" of "/>"), whatever lies between the name and that ">", and
\* the output is well-formed.
C14_PlacementBeforeTagEnd ==
  \A f \in Files :
    outputs[f].status = "code" =>
      LET code == files[f].code
          tagged == QualifyingElements(code)
      IN  /\ Parse(outputs[f].code).ok
          /\ \A m \in 1..Len(tagged) :
               Len(tagged[m].attributes) = 0 =>
                 LET end == tagged[m].end
                     q == IF code[end - 1].t = "/" THEN end - 1 ELSE end
                 IN  InjectedBefore(code, outputs[f].code, m, q, end)

(***************************************************************************)
(* Properties of the hook's result.                                        *)
(***************************************************************************)
Untouched(f) ==
  outputs[f].status \in {"none", "null"} /\ reruns[f].status \in {"none", "null"}

EnabledGiven == "enabled" \in DOMAIN userOptions

\* a file that the filter lets pass, parses and has an element to tag
HasWork(f) ==
  /\ ShouldProcessFile(files[f].path, options)
  /\ Parse(files[f].code).ok
  /\ QualifyingElements(files[f].code) # <<>>

\* C15: with `enabled` not given and a mode other than development the hook
\* returns null for every file; with `enabled` true it transforms eligible
\* files in any mode, and with `enabled` false it never transforms.
C15_ProductionInert ==
  config # NoConfig =>
    /\ (~EnabledGiven /\ config.mode # "development") => \A f \in Files : Untouched(f)
    /\ (EnabledGiven /\ ~userOptions.enabled) => \A f \in Files : Untouched(f)
    /\ (EnabledGiven /\ userOptions.enabled) =>
         \A f \in Files :
           (outputs[f].status # "none" /\ HasWork(f)) => outputs[f].status = "code"

\* a production build, `enabled` not given: the hook has returned null for
\* two files that it would have tagged in development
C15_Witness ==
  /\ config = ProdConfig
  /\ ~EnabledGiven
  /\ \A f \in Files : HasWork(f) /\ outputs[f] = NullResult

\* C16: for a source that fails to parse the hook throws nothing and returns
\* null, and the files handled after it are transformed as usual.
C16_ParseFailureRecovered ==
  /\ \A f \in Files :
       /\ outputs[f].status # "throw" /\ reruns[f].status # "throw"
       /\ (outputs[f].status # "none" /\ ~Parse(files[f].code).ok)
            => outputs[f] = NullResult
       /\ (reruns[f].status # "none" /\ ~Parse(outputs[f].code).ok)
            => reruns[f] = NullResult
  /\ \A f, g \in Files :
       (/\ outputs[f].status # "none" /\ ~Parse(files[f].code).ok
        /\ outputs[g].status # "none" /\ options.enabled /\ HasWork(g))
       => outputs[g].status = "code"

\* the first file has failed to parse and the hook returned null for it; the
\* second has been transformed
C16_Witness ==
  /\ options.enabled
  /\ ShouldProcessFile(files[1].path, options)
  /\ ~Parse(files[1].code).ok
  /\ outputs[1] = NullResult
  /\ outputs[2].status = "code"

\* the result `r` of the hook for the source `code` of file f
SignalsRightly(f, code, r) ==
  /\ r.status = "null" <=>
       \/ ~options.enabled
       \/ ~ShouldProcessFile(files[f].path, options)
       \/ ~Parse(code).ok
       \/ QualifyingElements(code) = <<>>
  /\ r.status = "code" =>
       /\ r.code # code
       /\ Len(r.code) > Len(code)
       /\ Len(Named(r.code, options.attributeName))
            > Len(Named(code, options.attributeName))

\* C17: the hook returns null exactly when no element was tagged (plugin
\* disabled, file not eligible, parse failure, no qualifying element); the
\* code it returns otherwise differs from its input by at least one inserted
\* identity attribute.
C17_NullIffNothingTagged ==
  \A f \in Files :
    /\ outputs[f].status # "none" => SignalsRightly(f, files[f].code, outputs[f])
    /\ reruns[f].status # "none" => SignalsRightly(f, outputs[f].code, reruns[f])

\* the hook, enabled, has returned null for an eligible file that holds a
\* fragment and nothing else, and code for the other file
C17_Witness ==
  /\ options.enabled
  /\ ShouldProcessFile(files[1].path, options)
  /\ files[1].code = <<LT, GT>>
  /\ outputs[1] = NullResult
  /\ outputs[2].status = "code"

(***************************************************************************)
(* Properties of auto-tagging.                                             *)
(***************************************************************************)
\* C18: once an element has an identity attribute, written by the build or
\* by an earlier auto-tag, no later sweep, observer callback or cycle of
\* disable and enable tags it again: its component id and its auto-tagged
\* mark never change, and the counter moves only for elements newly tagged.
C18_NoRetagging ==
  [][/\ \A e \in Elements :
          componentId[e] # Absent =>
            componentId'[e] = componentId[e] /\ autoTagged'[e] = autoTagged[e]
     /\ autoTagCounter' - autoTagCounter
          = Cardinality({e \in Elements :
                           componentId[e] = Absent /\ componentId'[e] # Absent})]_vars

\* the heading, auto-tagged, has been taken out and put back at the end of
\* the root while the observer runs, after the overlay was disabled and
\* enabled again
C18_Witness ==
  /\ isDesignModeActive /\ mutationObserver
  /\ hostSeen = "disabled"
  /\ autoTagged[8]
  /\ componentId[8] \in {AutoId(AutoTagSeed), AutoId(AutoTagSeed + 1)}
  /\ children[Root][Len(children[Root])] = ElemItem(8)
  /\ autoTagCounter = AutoTagSeed + 2

(***************************************************************************)
(* Properties of a click.                                                  *)
(***************************************************************************)
\* what the pointer's target resolves to
Resolved(t) == FindClosestTaggedElement(children, componentId, classList, t)

Selections(q) == SelectSeq(q, LAMBDA m : m.type = "element-selected")

\* C19: a click handled while active whose target resolves to a tagged
\* editable element T makes T the selected element, with the selected class
\* on T and off the element selected before, and posts exactly one
\* element-selected message that describes T; no other step posts one.
C19_ClickSelects ==
  /\ [][\A t \in PointerTargets :
          (HandleClick(t) /\ isDesignModeActive /\ Resolved(t) # Null) =>
            LET T == Resolved(t)
            IN  /\ selectedElement' = T
                /\ SELECTED_CLASS \in classList'[T]
                /\ \A e \in Elements \ {T} : SELECTED_CLASS \notin classList'[e]
                /\ Len(outbox') = Len(outbox) + 1
                /\ outbox'[Len(outbox')].type = "element-selected"
                /\ outbox'[Len(outbox')].data.componentId = componentId[T]
                /\ outbox'[Len(outbox')].data.tagName = TagName[T]
                /\ SubSeq(outbox', 1, Len(outbox)) = outbox]_vars
  /\ [][Len(Selections(outbox')) > Len(Selections(outbox)) =>
          \E t \in PointerTargets :
            HandleClick(t) /\ isDesignModeActive /\ Resolved(t) # Null]_vars

\* a click on the bold text has selected the paragraph around it, an
\* element hovered before, and the message that describes the paragraph is
\* on its way
C19_Witness ==
  /\ isDesignModeActive
  /\ selectedElement = 6
  /\ hoveredElement = 6
  /\ classList[6] = {SELECTED_CLASS}
  /\ Selections(outbox) # <<>>
  /\ Selections(outbox)[1].data.componentId = "p_Page_7_4"

\* C20: a click handled while active whose target has no tagged editable
\* ancestor leaves the selected element, the classes and the hovered element
\* as they are and posts nothing.
C20_UnresolvedClickInert ==
  [][\A t \in PointerTargets :
       (HandleClick(t) /\ isDesignModeActive /\ Resolved(t) = Null) =>
         UNCHANGED << selectedElement, classList, hoveredElement, outbox >>]_vars

\* the overlay is active with one element selected and another hovered, and
\* a click on the body or on the badge resolves to nothing: the state such a
\* click was handled in and has left as it was
C20_Witness ==
  /\ isDesignModeActive /\ listeners
  /\ selectedElement = 4 /\ SELECTED_CLASS \in classList[4]
  /\ hoveredElement = 5 /\ HOVER_CLASS \in classList[5]
  /\ Resolved(Body) = Null /\ Resolved(9) = Null
  /\ outbox = <<>>

(***************************************************************************)
(* Properties of the visual classes.                                       *)
(***************************************************************************)
Carrying(c) == {e \in Elements : c \in classList[e]}

C24_SelectionOverHover ==
  /\ [](Carrying(SELECTED_CLASS) \cap Carrying(HOVER_CLASS) = {})
  /\ [][\A e \in Elements :
          (HOVER_CLASS \in classList'[e] /\ HOVER_CLASS \notin classList[e]) =>
            (e # selectedElement /\ e # selectedElement')]_vars

\* the frame has run the hover callback of the element that is selected:
\* the element is the hovered element and carries the selected class alone,
\* while another element was selected before
C24_Witness ==
  /\ isDesignModeActive
  /\ selectedElement = 5 /\ hoveredElement = 5
  /\ classList[5] = {SELECTED_CLASS}
  /\ rafQueue = <<>>
  /\ Carrying(HOVER_CLASS) = {}

\* C30: at most one element carries the selected class and it is the
\* selected element; at most one carries the hover class and it is the
\* hovered element.
C30_OneSelectionOneHover ==
  /\ Carrying(SELECTED_CLASS) \subseteq {selectedElement}
  /\ Carrying(HOVER_CLASS) \subseteq {hoveredElement}

\* one element is selected and another one hovered, each with its class,
\* after the hover has moved from the one to the other
C30_Witness ==
  /\ isDesignModeActive
  /\ selectedElement = 4 /\ Carrying(SELECTED_CLASS) = {4}
  /\ hoveredElement = 6 /\ Carrying(HOVER_CLASS) = {6}

(***************************************************************************)
(* Resolution of a pointer target.                                         *)
(***************************************************************************)
\* the path from e upward: e, its parent, ... up to the body; par gives
\* each element's parent
RECURSIVE PathVia(_, _)
PathVia(par, e) == IF e = Null THEN <<>> ELSE <<e>> \o PathVia(par, par[e])

Paths ==
  LET par == [e \in Elements |-> ParentElement(children, e)]
  IN  [e \in Elements |-> PathVia(par, e)]

\* the elements that are the branding link or inside it
InBranding(paths) ==
  {e \in Elements :
     \E i \in 1..Len(paths[e]) : BRANDING_CLASS \in classList[paths[e][i]]}

\* the elements that carry an identity attribute and may be edited
Eligible(paths) ==
  {e \in Elements \ InBranding(paths) :
     /\ componentId[e] # Absent
     /\ TagName[e] \notin {"html", "body"}
     /\ DomId[e] # "root"}

\* the nearest of the elements es among the first ten of the path
Nearest(path, es) ==
  LET found == {i \in 1..Len(path) : i <= 10 /\ path[i] \in es}
  IN  IF found = {} THEN Null
      ELSE path[CHOOSE i \in found : \A j \in found : i <= j]

\* C22: findClosestTaggedElement(node) is the nearest element of the path
\* from node upward, node included, that carries an identity attribute and
\* is editable, among the first ten of the path, and null when there is
\* none; it is never the body, the root container, the branding element or
\* an element inside the branding element.
C22_ResolutionNearestEditable ==
  LET paths == Paths
      branding == InBranding(paths)
      eligible == Eligible(paths)
  IN  \A t \in Elements :
        LET r == Resolved(t)
        IN  /\ r = Nearest(paths[t], eligible)
            /\ r \notin {Body, Root} \cup branding

\* the branding link has ten elements nested in it and a tagged element
\* around it: a click on the innermost resolves to nothing, its ten nearest
\* being inside the link, and a click on the tagged element has selected it
C22_Witness ==
  /\ isDesignModeActive
  /\ BRANDING_CLASS \in classList[4]
  /\ 3 \in Eligible(Paths)
  /\ Len(Paths[13]) > 10
  /\ Resolved(13) = Null
  /\ selectedElement = 3

(***************************************************************************)
(* The auto-tagging policy.                                                *)
(***************************************************************************)
NonBlank(t) == \E i \in 1..Len(t) : t[i] # " "

\* the element or one of its descendants holds a text that is not blank
HasText(e) ==
  \E d \in {e} \cup {Descendants(children, e)[i] :
                       i \in 1..Len(Descendants(children, e))} :
    \E i \in 1..Len(children[d]) :
      children[d][i].k = "text" /\ NonBlank(children[d][i].t)

HasOwnText(e) ==
  \E i \in 1..Len(children[e]) :
    children[e][i].k = "text" /\ NonBlank(children[e][i].t)

ChildCount(e) ==
  Cardinality({i \in 1..Len(children[e]) : children[e][i].k = "elem"})

Policy(e) ==
  /\ componentId[e] = Absent /\ ~autoTagged[e]
  /\ HasText(e) \/ ChildCount(e) >= 1
  /\ \/ TagName[e] \in {"h1", "h2", "h3", "h4", "h5", "h6", "p"} /\ HasText(e)
     \/ TagName[e] \in {"button", "a", "input", "textarea", "select"}
     \/ /\ TagName[e] \in {"span", "label", "li"}
        /\ HasText(e) /\ ChildCount(e) < 3
     \/ /\ TagName[e] \in {"div", "section", "article"}
        /\ HasOwnText(e) \/ (1 <= ChildCount(e) /\ ChildCount(e) <= 5)

Opaque(ev) == ev.message = "Script error." /\ ev.filename = "" /\ ev.lineno = 0

\* C25: every error event is forwarded to the host as a console-error
\* message, in either mode, except the opaque cross-origin reports, which
\* are never forwarded; forwarding changes nothing of the overlay's state.
C25_ErrorsForwardedFiltered ==
  [][\A ev \in ErrorEvents :
       WindowError(ev) =>
         /\ outbox' = IF Opaque(ev) THEN outbox
                      ELSE Append(outbox, ConsoleErrorOf(ev))
         /\ UNCHANGED << overlayVars, docVars >>]_vars

InitErrors(q) == SelectSeq(q, LAMBDA m : m.type = "init-error")

\* C26: when the guarded setup throws, at whichever step, exactly one
\* init-error message is posted and afterwards the message listener and
\* the global error listener are both installed.
C26_InitFailureContained ==
  [][\A throwAt \in 1..4 :
       RunScript(throwAt) =>
         /\ Len(InitErrors(outbox')) = 1
         /\ {"message", "error"} \subseteq installed']_vars

\* the URL without its cache-buster parameter
Stripped(url) == SelectSeq(url, LAMBDA part : part # "?_t=1")

\* C27: whenever the URL of the preview changes through the history API or
\* a hash change, a url-changed message with the new URL, the cache-buster
\* parameter stripped, is posted to the host.
C27_NavigationReported ==
  [][location' # location =>
       /\ Len(outbox') = Len(outbox) + 1
       /\ outbox'[Len(outbox')] =
            [type |-> "url-changed", data |-> [url |-> Stripped(location')]]]_vars

(***************************************************************************)
(* The description of the selected element.                                *)
(***************************************************************************)
\* the texts among the items, one after the other
RECURSIVE OwnTextOf(_)
OwnTextOf(items) ==
  IF items = <<>> THEN <<>>
  ELSE (IF Head(items).k = "text" THEN Head(items).t ELSE <<>>)
       \o OwnTextOf(Tail(items))

\* the description posted by the step, a click that resolved
Described == outbox'[Len(outbox')].data

SelectingClick(t) == HandleClick(t) /\ isDesignModeActive /\ Resolved(t) # Null

\* C28: the description sent on selection has hasChildElements true exactly
\* when the element has a child element, and textContent equal to the
\* element's own text, trimmed, without any text of its descendants.
C28_DescriptionText ==
  [][\A t \in PointerTargets :
       SelectingClick(t) =>
         /\ Described.hasChildElements <=> (ChildCount(Resolved(t)) >= 1)
         /\ Described.textContent = Trim(OwnTextOf(children[Resolved(t)]))]_vars

\* C28, amended: textContent is the element's own text, trimmed, when the
\* element has no child element, and empty when it has one.
C28_DescriptionTextOfLeaves ==
  [][\A t \in PointerTargets :
       SelectingClick(t) =>
         /\ Described.hasChildElements <=> (ChildCount(Resolved(t)) >= 1)
         /\ Described.textContent =
              IF ChildCount(Resolved(t)) >= 1 THEN <<>>
              ELSE Trim(OwnTextOf(children[Resolved(t)]))]_vars

\* the paragraph, which holds a bold element and a text of its own, is
\* selected and described without text, as having child elements
C28_Witness ==
  /\ selectedElement = 6
  /\ Trim(OwnTextOf(children[6])) = <<"tail">>
  /\ outbox # <<>>
  /\ outbox[Len(outbox)].type = "element-selected"
  /\ outbox[Len(outbox)].data.componentId = componentId[6]
  /\ outbox[Len(outbox)].data.textContent = <<>>
  /\ outbox[Len(outbox)].data.hasChildElements

\* 0-based position of e among the elements of the document with its id
IndexAmongSameId(e) ==
  LET order == DocOrder(children)
      at == CHOOSE i \in 1..Len(order) : order[i] = e
  IN  Cardinality({i \in 1..(at - 1) : componentId[order[i]] = componentId[e]})

\* C29: the description sent on selection carries the element's instance
\* index, its 0-based position among the elements of the document that
\* share its component id.
C29_DescriptionInstanceIndex ==
  [][\A t \in PointerTargets :
       SelectingClick(t) =>
         /\ "instanceIndex" \in DOMAIN Described
         /\ Described.instanceIndex = IndexAmongSameId(Resolved(t))]_vars

(***************************************************************************)
(* Hovering.                                                               *)
(***************************************************************************)
\* the pointer-over event on t is handled and not dropped by the throttle
ProcessedHover(t) == HandleMouseOver(t) /\ isDesignModeActive /\ ~hoverTimeout

\* what the next animation frame makes of the state the step ends in
NextFrame ==
  RunCallbacks([children |-> children', style |-> style',
                classList |-> classList', hoveredElement |-> hoveredElement'],
               rafQueue', Len(rafQueue'), selectedElement')

\* C31: while active, when a pointer-over event is processed and resolves to
\* an element T that is not the selected element, then after the next
\* animation frame T is the hovered element and carries the hover class,
\* and the element hovered before no longer carries it.
C31_HoverApplied ==
  [][\A t \in PointerTargets :
       (ProcessedHover(t) /\ Resolved(t) \notin {Null, selectedElement}) =>
         /\ NextFrame.hoveredElement = Resolved(t)
         /\ HOVER_CLASS \in NextFrame.classList[Resolved(t)]
         /\ hoveredElement \notin {Null, Resolved(t)} =>
              HOVER_CLASS \notin NextFrame.classList[hoveredElement]]_vars

\* the hover callbacks waiting in a queue of frame callbacks
HoverCallbacks(q) == {i \in 1..Len(q) : q[i].kind = "hover"}

\* C32: a pointer-over event arriving while the throttle timer runs is
\* dropped: it changes nothing of the overlay, of the document, of the
\* pending frame callbacks or of the messages to the host; a hover callback
\* is only ever scheduled by an event handled while no timer runs, which
\* starts the timer, so a dropped event is never replayed and two hover
\* changes are never initiated within one throttle interval; no timer runs
\* while the mode is inactive, so the first event after enabling is
\* processed.
C32_HoverThrottled ==
  /\ [](~isDesignModeActive => ~hoverTimeout)
  /\ [][/\ \A t \in PointerTargets :
             (HandleMouseOver(t) /\ hoverTimeout) =>
               UNCHANGED << overlayVars, docVars, rafQueue, outbox, hostSeen >>
        /\ Cardinality(HoverCallbacks(rafQueue')) >
             Cardinality(HoverCallbacks(rafQueue)) =>
               /\ ~hoverTimeout /\ hoverTimeout'
               /\ \E t \in PointerTargets : ProcessedHover(t)
        /\ HoverTimeoutFires => UNCHANGED rafQueue
        /\ (~isDesignModeActive /\ isDesignModeActive') => ~hoverTimeout']_vars

\* the first <li> is hovered, its frame has run and the timer still runs:
\* a pointer-over on another element is dropped here
C32_Witness ==
  /\ isDesignModeActive /\ hoverTimeout
  /\ hoveredElement = 4 /\ rafQueue = <<>>
  /\ hostSeen = "disabled"

(***************************************************************************)
(* Edits in time.                                                          *)
(***************************************************************************)
\* C33: handling an update-element command changes neither the text nor the
\* inline styles of the document; they change only in the step of the next
\* animation frame, which runs every pending callback and so applies the
\* text and all style entries of an update at once, whether the overlay is
\* active or inactive.
C33_EditsDeferred ==
  [][/\ \A u \in Updates :
          MsgUpdateElement(u) => UNCHANGED << children, style >>
     /\ << children, style >>' # << children, style >> =>
          LET d == RunCallbacks(FrameState, rafQueue, Len(rafQueue),
                                selectedElement)
          IN  /\ rafQueue # <<>> /\ rafQueue' = <<>>
              /\ children' = d.children
              /\ style' = d.style]_vars

\* the frame has applied both style entries of an update to the first <li>
\* while the overlay is active
C33_Witness ==
  /\ isDesignModeActive
  /\ rafQueue = <<>>
  /\ style[4]["color"] = "blue"

(***************************************************************************)
(* Observation of the document.                                            *)
(***************************************************************************)
\* an added element and all its descendants
AddedWith(e) ==
  {e} \cup {Descendants(children, e)[i] : i \in 1..Len(Descendants(children, e))}

\* C34: while the overlay is active, when an element is added under the
\* body, the observer's callback checks it and all its descendants against
\* the auto-tagging policy, and every one of them that satisfies the policy
\* carries a component id afterwards; while inactive an added element and
\* its descendants receive no identity attribute.
C34_AddedSubtreeTagged ==
  [][\A e \in Movable :
       PageAppends(e) =>
         IF isDesignModeActive
         THEN \A d \in AddedWith(e) :
                Policy(d) => /\ componentId'[d] # Absent
                             /\ autoTagged'[d]
         ELSE UNCHANGED << componentId, autoTagged, autoTagCounter >>]_vars

\* the section has been inserted while the overlay was active: it and the
\* span in it were auto-tagged
C34_Witness ==
  /\ isDesignModeActive
  /\ InDocument(children, 12)
  /\ autoTagged[12] /\ autoTagged[10]
  /\ componentId[10] # Absent

(***************************************************************************)
(* Setting of styles.                                                      *)
(***************************************************************************)
\* the i-th entry is the last of the entries that names its CSS property
LastFor(entries, i) ==
  \A j \in (i + 1)..Len(entries) :
    StyleAttribute(entries[j][1]) # StyleAttribute(entries[i][1])

\* C35, as claimed: after an update, the element's inline value for every
\* property whose entry is neither the empty string nor a zero length is
\* the value given, the colour rgb(0, 0, 0) included.
C35_StyleSet ==
  \A n \in QueuedUpdates :
    LET e == rafQueue[n].element
        entries == rafQueue[n].updates.styles
    IN  \A i \in 1..Len(entries) :
          entries[i][2] \notin {""} \cup ZeroLengths =>
            After(n).style[e][StyleAttribute(entries[i][1])] = entries[i][2]

\* C35, amended: after an update, the element's inline value for a property
\* is the value given when the entry's value is none of the empty string, a
\* zero length and rgb(0, 0, 0), is a value the property accepts and no
\* later entry names the property; an update whose only entry has the value
\* rgb(0, 0, 0) leaves the property as it was.
C35_StyleSetNonDefault ==
  \A n \in QueuedUpdates :
    LET e == rafQueue[n].element
        entries == rafQueue[n].updates.styles
    IN  \A i \in 1..Len(entries) :
          LET prop == StyleAttribute(entries[i][1])
              value == entries[i][2]
          IN  (prop \in CssProps /\ LastFor(entries, i)) =>
                /\ (/\ value \notin {"", "rgb(0, 0, 0)"} \cup ZeroLengths
                    /\ CssAccepts(prop, value)) =>
                     After(n).style[e][prop] = value
                /\ (value = "rgb(0, 0, 0)" /\ Len(entries) = 1) =>
                     After(n).style[e][prop] = Before(n).style[e][prop]

\* the frame has set the float of the first <li> to the value of an update
C35_Witness ==
  /\ rafQueue = <<>>
  /\ style[4]["float"] = "right"

(***************************************************************************)
(* Identities given at run time.                                           *)
(***************************************************************************)
AutoTaggedElements == {e \in Elements : autoTagged[e]}

\* C36: every auto-tagged element's component id is auto-N with N from the
\* seed 10000 up to the counter, no two elements have the same auto id, and
\* as many numbers have been used as elements tagged; the counter never
\* goes down, and an element newly tagged gets a number that is at least
\* the counter before the step, so above every number given before.
C36_AutoIdsUnique ==
  /\ [](/\ autoTagCounter >= AutoTagSeed
        /\ \A e \in AutoTaggedElements :
             \E n \in AutoTagSeed..(autoTagCounter - 1) :
               componentId[e] = AutoId(n)
        /\ \A e, f \in AutoTaggedElements :
             e # f => componentId[e] # componentId[f]
        /\ Cardinality(AutoTaggedElements) = autoTagCounter - AutoTagSeed)
  /\ [][/\ autoTagCounter' >= autoTagCounter
        /\ \A e \in Elements :
             (~autoTagged[e] /\ autoTagged'[e]) =>
               \E n \in autoTagCounter..(autoTagCounter' - 1) :
                 componentId'[e] = AutoId(n)]_vars

\* two elements were tagged by the first sweep; after the overlay was
\* disabled and enabled again the observer tagged the inserted section and
\* its span with the next two numbers
C36_Witness ==
  /\ mutationObserver
  /\ hostSeen = "disabled"
  /\ componentId[12] = AutoId(AutoTagSeed + 2)
  /\ componentId[10] = AutoId(AutoTagSeed + 3)
  /\ autoTagCounter = AutoTagSeed + 4

(***************************************************************************)
(* The resources of the mode.                                              *)
(***************************************************************************)
\* the step runs the body of enableDesignMode: it posts the 'enabled' ack
Attaches ==
  /\ Len(outbox') = Len(outbox) + 1
  /\ outbox'[Len(outbox')] = Msg("enabled")

\* C37: in every reachable state the overlay is active if and only if the
\* body carries the active-mode class, if and only if the pointer listeners
\* are attached, if and only if the observer runs; the listeners and the
\* observer are attached only by a step that starts with none attached.
C37_ResourcesTrackMode ==
  /\ [](/\ isDesignModeActive <=> ACTIVE_CLASS \in classList[Body]
        /\ isDesignModeActive <=> listeners
        /\ isDesignModeActive <=> mutationObserver)
  /\ [][Attaches => ~listeners /\ ~mutationObserver /\ ~isDesignModeActive]_vars

\* after a cycle of disable and enable, an enable command arrived while the
\* overlay was active
C37_Witness ==
  /\ isDesignModeActive /\ listeners /\ mutationObserver
  /\ ACTIVE_CLASS \in classList[Body]
  /\ hostSeen = "disabled"
  /\ redundant = "enable"

(***************************************************************************)
(* Several edits pending.  The host sends texts for the first <li> and for *)
(* the list around it, colours and a float for the <li> and a colour for   *)
(* the paragraph; the page takes the paragraph out of the root and puts it *)
(* back.                                                                   *)
(***************************************************************************)
TextEdit(id, text) ==
  [componentId |-> id, instanceIndex |-> NoIndex, hasText |-> TRUE,
   textContent |-> text, styles |-> <<>>]
StyleEdit(id, st) ==
  [componentId |-> id, instanceIndex |-> NoIndex, hasText |-> FALSE,
   textContent |-> <<>>, styles |-> st]

EditUpdates ==
  { TextEdit("li_List_5_8", <<"A">>),
    TextEdit("li_List_5_8", <<"B">>),
    TextEdit("ul_List_3_4", <<"C">>),
    StyleEdit("li_List_5_8", << <<"color", "blue">> >>),
    StyleEdit("li_List_5_8", << <<"color", "">> >>),
    StyleEdit("li_List_5_8", << <<"color", "rgb(0, 0, 0)">> >>),
    StyleEdit("li_List_5_8", << <<"cssFloat", "right">> >>),
    StyleEdit("p_Page_7_4", << <<"color", "blue">> >>) }

EditNext ==
  \/ \E u \in EditUpdates : MsgUpdateElement(u)
  \/ PageRemoves(6)
  \/ PageAppends(6)
  \/ AnimationFrame

EditSpec == Init /\ [][EditNext]_vars

\* the pending updates of the element e that carry a text, and those that
\* set or remove the colour (an entry rgb(0, 0, 0) does neither)
TextEdits(e) ==
  {n \in QueuedUpdates : rafQueue[n].element = e /\ rafQueue[n].updates.hasText}
ColorEdits(e) ==
  {n \in QueuedUpdates :
     /\ rafQueue[n].element = e
     /\ rafQueue[n].updates.styles # <<>>
     /\ rafQueue[n].updates.styles[1][1] = "color"
     /\ rafQueue[n].updates.styles[1][2] # "rgb(0, 0, 0)"}
LastOf(S) == CHOOSE n \in S : \A m \in S : m <= n

\* C38: the callback of an update holds the element that the component id
\* resolved to when the command was handled, whatever the page does to the
\* document before the frame; the frame runs the pending callbacks in the
\* order of the commands, so that afterwards the text of an element without
\* child elements is the text of the last pending update for it, and its
\* inline colour is that of the last pending update that sets or removes
\* the colour.
C38_PendingEditsOrdered ==
  [][/\ \A u \in EditUpdates :
          (MsgUpdateElement(u) /\ Len(rafQueue') > Len(rafQueue)) =>
            rafQueue'[Len(rafQueue')].element
              = QuerySelector(children, componentId, u.componentId)
     /\ ~AnimationFrame => \A n \in 1..Len(rafQueue) : rafQueue'[n] = rafQueue[n]
     /\ AnimationFrame =>
          \A e \in Elements :
            /\ (TextEdits(e) # {} /\ ~HasChildElements(children, e)) =>
                 children'[e]
                   = <<TextItem(rafQueue[LastOf(TextEdits(e))].updates.textContent)>>
            /\ ColorEdits(e) # {} =>
                 LET value == rafQueue[LastOf(ColorEdits(e))].updates.styles[1][2]
                 IN  style'[e]["color"] = IF value = "" THEN Absent ELSE value]_vars
====
